---- MODULE Spec2Model ----
(***************************************************************************)
(* A model of the album-a-day metadata core: the MusicBrainz client with   *)
(* its request limiter, the Redis-backed entity caches (MusicCache and     *)
(* MusicStorage), the search orchestration and the cover-art resolution.   *)
(*                                                                         *)
(* Strings that are used as store keys are modelled as sequences of        *)
(* tokens, so that "album:" + "mbid:" + "r1" and "album:" + "mbid:r1" are  *)
(* the same key, as they are the same string in the program.               *)
(***************************************************************************)
EXTENDS Integers, Sequences, FiniteSets, TLC

VARIABLES
    clock,            \* Date.now() in milliseconds
    lastRequestTime,  \* MusicBrainzClient.lastRequestTime
    requestTimes,     \* MusicBrainzClient.requestTimes
    pc,               \* position of every makeRequest caller
    callNow,          \* the `now` a caller read on entry, kept while it is still read
    wakeAt,           \* the time a sleeping caller's timer fires
    dispatched,       \* history: the times at which fetch() was issued
    redisTime,        \* the store's clock, in seconds
    storeTicks,       \* number of times the store's clock has advanced
    db,               \* the Redis store: [data: key -> value, exp: key -> expiry time]
    opCount,          \* number of operations run so far
    lastOp,           \* the latest operation, its arguments and its result
    batch             \* the asynchronous calls in progress (getCoverArtUrls and its
                      \* promises, createUser calls) and what they have returned

limVars == <<clock, lastRequestTime, requestTimes, pc, callNow, wakeAt, dispatched>>
storeVars == <<redisTime, storeTicks, db, opCount, lastOp, batch>>

vars == <<clock, lastRequestTime, requestTimes, pc, callNow, wakeAt, dispatched,
          redisTime, storeTicks, db, opCount, lastOp, batch>>

----------------------------------------------------------------------------
(* Program constants of the limiter *)
RATE_LIMIT_DELAY == 100
BURST_LIMIT == 5
BURST_WINDOW == 1000

(* Bounds of the limiter model *)
MaxTicks == 2
MaxWindows == 1
\* one request more than the burst limit is what an over-limit burst takes
MaxRequests == BURST_LIMIT + 1
\* two concurrent callers (two requests in flight on the event loop)
Callers == {"c1", "c2"}
\* Date.now() is far from lastRequestTime's initial 0 when the process starts
StartClock == BURST_WINDOW

----------------------------------------------------------------------------
(* makeRequest, cut at its suspension points *)

\* requestTimes.filter(time => now - time < BURST_WINDOW)
PruneWindow(times, now) == SelectSeq(times, LAMBDA t : now - t < BURST_WINDOW)

\* the fetch is issued: the caller is suspended until the response arrives
DispatchFetch(p) ==
    /\ pc' = [pc EXCEPT ![p] = "fetching"]
    /\ dispatched' = Append(dispatched, clock)
    /\ callNow' = [callNow EXCEPT ![p] = 0]
    /\ wakeAt' = [wakeAt EXCEPT ![p] = 0]

\* "Apply rate limiting for non-burst requests": uses the `now` read on entry
SpacingCheck(p, now, times) ==
    LET timeSinceLastRequest == now - lastRequestTime IN
    IF timeSinceLastRequest < RATE_LIMIT_DELAY /\ Len(times) < BURST_LIMIT
    THEN /\ pc' = [pc EXCEPT ![p] = "spaceWait"]
         /\ wakeAt' = [wakeAt EXCEPT ![p] = clock + (RATE_LIMIT_DELAY - timeSinceLastRequest)]
         /\ callNow' = [callNow EXCEPT ![p] = 0]
         /\ UNCHANGED dispatched
    ELSE DispatchFetch(p)

\* entry of makeRequest up to its first await
MakeRequest(p) ==
    /\ pc[p] = "idle"
    /\ Len(dispatched) < MaxRequests
    /\ LET now == clock
           pruned == PruneWindow(requestTimes, now)
       IN /\ requestTimes' = pruned
          /\ IF /\ Len(pruned) >= BURST_LIMIT
                /\ BURST_WINDOW - (now - pruned[1]) > 0
             THEN /\ pc' = [pc EXCEPT ![p] = "burstWait"]
                  /\ wakeAt' = [wakeAt EXCEPT ![p] = clock + (BURST_WINDOW - (now - pruned[1]))]
                  /\ callNow' = [callNow EXCEPT ![p] = now]
                  /\ UNCHANGED dispatched
             ELSE SpacingCheck(p, now, pruned)
    /\ UNCHANGED <<clock, lastRequestTime>>
    /\ UNCHANGED storeVars

\* the burst timer fired: the caller goes on to the spacing check
WakeBurst(p) ==
    /\ pc[p] = "burstWait"
    /\ clock >= wakeAt[p]
    /\ SpacingCheck(p, callNow[p], requestTimes)
    /\ UNCHANGED <<clock, lastRequestTime, requestTimes>>
    /\ UNCHANGED storeVars

\* the spacing timer fired: the caller issues the fetch
WakeSpace(p) ==
    /\ pc[p] = "spaceWait"
    /\ clock >= wakeAt[p]
    /\ DispatchFetch(p)
    /\ UNCHANGED <<clock, lastRequestTime, requestTimes>>
    /\ UNCHANGED storeVars

\* the response arrived with a 2xx status: the request is recorded
ResponseOk(p) ==
    /\ pc[p] = "fetching"
    /\ lastRequestTime' = clock
    /\ requestTimes' = Append(requestTimes, clock)
    /\ pc' = [pc EXCEPT ![p] = "idle"]
    /\ UNCHANGED <<clock, callNow, wakeAt, dispatched>>
    /\ UNCHANGED storeVars

\* fetch threw or the status was not 2xx: makeRequest rethrows
ResponseError(p) ==
    /\ pc[p] = "fetching"
    /\ pc' = [pc EXCEPT ![p] = "idle"]
    /\ UNCHANGED <<clock, lastRequestTime, requestTimes, callNow, wakeAt, dispatched>>
    /\ UNCHANGED storeVars

\* time passes: one spacing delay
Tick ==
    /\ clock % BURST_WINDOW < MaxTicks * RATE_LIMIT_DELAY
    /\ clock' = clock + RATE_LIMIT_DELAY
    /\ UNCHANGED <<lastRequestTime, requestTimes, pc, callNow, wakeAt, dispatched>>
    /\ UNCHANGED storeVars

\* time passes: one whole burst window
TickWindow ==
    /\ clock < StartClock + MaxWindows * BURST_WINDOW
    /\ clock' = clock + BURST_WINDOW
    /\ UNCHANGED <<lastRequestTime, requestTimes, pc, callNow, wakeAt, dispatched>>
    /\ UNCHANGED storeVars

\* the store as it is before any request has been served
StoreIdle ==
    /\ redisTime = 0
    /\ storeTicks = 0
    /\ db = [data |-> <<>>, exp |-> <<>>]
    /\ opCount = 0
    /\ lastOp = [op |-> "none"]
    /\ batch = [phase |-> "idle"]

\* the limiter before any request
LimIdle ==
    /\ clock = StartClock
    /\ lastRequestTime = 0
    /\ requestTimes = <<>>
    /\ pc = [p \in Callers |-> "idle"]
    /\ callNow = [p \in Callers |-> 0]
    /\ wakeAt = [p \in Callers |-> 0]
    /\ dispatched = <<>>

LimInit == LimIdle /\ StoreIdle

LimNext ==
    \/ \E p \in Callers : MakeRequest(p)
    \/ \E p \in Callers : WakeBurst(p)
    \/ \E p \in Callers : WakeSpace(p)
    \/ \E p \in Callers : ResponseOk(p)
    \/ \E p \in Callers : ResponseError(p)
    \/ Tick
    \/ TickWindow

SpecLimiter == LimInit /\ [][LimNext]_vars

----------------------------------------------------------------------------
\* the dispatches that fall in the window of BURST_WINDOW ms starting at dispatch i
InWindowFrom(i) ==
    {j \in DOMAIN dispatched :
        /\ dispatched[j] >= dispatched[i]
        /\ dispatched[j] < dispatched[i] + BURST_WINDOW}

(* C1: in every interleaving of makeRequest callers, no sliding interval of
   BURST_WINDOW ms holds more than BURST_LIMIT dispatched requests. *)
C1_BurstBound ==
    \A i \in DOMAIN dispatched : Cardinality(InWindowFrom(i)) <= BURST_LIMIT

----------------------------------------------------------------------------
(* Strings, JSON and the Redis commands the caches use *)

\* a field that is undefined in a JavaScript object
Undefined == "<undefined>"
\* the null the cache readers return
Null == [null |-> TRUE]
\* a rejected promise (the store answered WRONGTYPE)
WrongType == [error |-> "WRONGTYPE"]

\* the characters of an id that matter to the keys built from it: a key prefix
\* the id starts with, a key suffix it ends with
Tok(id) ==
    CASE id = "mbid:r1"     -> <<"mbid:", "r1">>
      [] id = "hash:r1"     -> <<"hash:", "r1">>
      [] id = "a1:albums"   -> <<"a1", ":albums">>
      [] id = "g1:releases" -> <<"g1", ":releases">>
      [] OTHER              -> <<id>>

\* String.prototype.toLowerCase on the queries of the model
ToLowerCase(q) ==
    CASE q = "ABBA" -> "abba"
      [] q = " Abba" -> " abba"
      [] OTHER -> q

\* encodeURIComponent on the (lower-cased) queries of the model
EncodeURIComponent(q) ==
    CASE q = " abba" -> "%20abba"
      [] q = "abba gold" -> "abba%20gold"
      [] q = "gold abba" -> "gold%20abba"
      [] OTHER -> q

Field(obj, f) == IF f \in DOMAIN obj THEN obj[f] ELSE Undefined

\* the defined properties of a flat object, in property order, as JSON lists them
ObjectProps(obj, order) ==
    LET kept == SelectSeq(order, LAMBDA f : f \in DOMAIN obj /\ obj[f] # Undefined)
    IN [i \in 1..Len(kept) |-> <<kept[i], obj[kept[i]]>>]

\* a wrong serializer, for comparison: it keeps only the first four properties
JSONStringify_firstFour(obj, order) ==
    [json |-> "object", props |-> ObjectProps(obj, SubSeq(order, 1, 4))]

\* JSON.stringify of a flat object
JSONStringify(obj, order) == [json |-> "object", props |-> ObjectProps(obj, order)]

\* JSON.stringify of an array of flat objects
JSONStringifyList(list, order) ==
    [json |-> "array", items |-> [i \in DOMAIN list |-> ObjectProps(list[i], order)]]

AlbumFields == <<"id", "title", "artistName", "artistId", "releaseDate",
                 "coverArtUrl", "releaseGroupId">>
ArtistFields == <<"id", "name", "country", "disambiguation">>
ReleaseGroupFields == <<"id", "title", "artist", "artistId", "type", "firstReleaseDate">>

\* JSON.stringify of a SearchResult {albums, artists, total}
StringifySearchResult(r) ==
    [json |-> "search",
     albums |-> [i \in DOMAIN r.albums |-> ObjectProps(r.albums[i], AlbumFields)],
     artists |-> [i \in DOMAIN r.artists |-> ObjectProps(r.artists[i], ArtistFields)],
     total |-> r.total]

\* the object with the properties a JSON text lists
ParseObject(props) ==
    [f \in {props[i][1] : i \in DOMAIN props} |->
        props[CHOOSE i \in DOMAIN props : props[i][1] = f][2]]

\* JSON.parse: whatever was serialized, whichever reader asks for it; an array is
\* returned as [list |-> array]
JSONParse(text) ==
    CASE text.json = "object" -> ParseObject(text.props)
      [] text.json = "array" ->
            [list |-> [i \in DOMAIN text.items |-> ParseObject(text.items[i])]]
      [] text.json = "search" ->
            [albums |-> [i \in DOMAIN text.albums |-> ParseObject(text.albums[i])],
             artists |-> [i \in DOMAIN text.artists |-> ParseObject(text.artists[i])],
             total |-> text.total]

Put(f, k, v) == [x \in DOMAIN f \cup {k} |-> IF x = k THEN v ELSE f[x]]
Remove(f, k) == [x \in DOMAIN f \ {k} |-> f[x]]

\* SET key value: any old value and its expiry are replaced
RedisSet(d, k, v) ==
    [data |-> Put(d.data, k, [type |-> "string", val |-> v]),
     exp |-> Remove(d.exp, k)]

\* EXPIRE key ttl
RedisExpire(d, k, ttl, now) ==
    IF k \in DOMAIN d.data THEN [d EXCEPT !.exp = Put(@, k, now + ttl)] ELSE d

\* DEL key
RedisDel(d, k) == [data |-> Remove(d.data, k), exp |-> Remove(d.exp, k)]

\* GET key: the string, nil for a missing key, an error for a hash
RedisGet(d, k) ==
    IF k \notin DOMAIN d.data THEN [st |-> "nil"]
    ELSE IF d.data[k].type = "string" THEN [st |-> "ok", val |-> d.data[k].val]
    ELSE [st |-> "wrongtype"]

\* HSET key field value ...: refused when the key holds a string
RedisHSetOk(d, k) == k \in DOMAIN d.data => d.data[k].type = "hash"
RedisHSet(d, k, fields) ==
    IF ~RedisHSetOk(d, k) THEN d
    ELSE LET old == IF k \in DOMAIN d.data THEN d.data[k].val ELSE <<>>
             new == [f \in DOMAIN old \cup DOMAIN fields |->
                        IF f \in DOMAIN fields THEN fields[f] ELSE old[f]]
         IN [d EXCEPT !.data = Put(@, k, [type |-> "hash", val |-> new])]

\* KEYS prefix*
RedisKeys(d, prefix) == {k \in DOMAIN d.data : k[1] = prefix}

\* the keys whose expiry time has passed are gone
RedisExpired(d, now) == {k \in DOMAIN d.exp : d.exp[k] <= now}
RedisPurge(d, now) ==
    LET gone == RedisExpired(d, now)
    IN [data |-> [k \in DOMAIN d.data \ gone |-> d.data[k]],
        exp |-> [k \in DOMAIN d.exp \ gone |-> d.exp[k]]]

----------------------------------------------------------------------------
(* MusicCache: the entity cache with expiry *)

ALBUM_PREFIX == "album:"
ARTIST_PREFIX == "artist:"
SEARCH_PREFIX == "search:"
COVER_ART_PREFIX == "cover:"
RELEASE_GROUP_PREFIX == "release_group:"
DEFAULT_TTL == 86400
SEARCH_TTL == 14400
COVER_ART_TTL == 604800
\* MusicStorage.cacheSearchResults: EXPIRE key 3600
STORAGE_SEARCH_TTL == 3600

AlbumKey(id) == <<ALBUM_PREFIX>> \o Tok(id)
AlbumMbidKey(mbid) == <<ALBUM_PREFIX, "mbid:">> \o Tok(mbid)
AlbumHashKey(id) == <<ALBUM_PREFIX, "hash:">> \o Tok(id)
ArtistKey(id) == <<ARTIST_PREFIX>> \o Tok(id)
ArtistMbidKey(mbid) == <<ARTIST_PREFIX, "mbid:">> \o Tok(mbid)
ArtistAlbumsKey(id) == <<ARTIST_PREFIX>> \o Tok(id) \o <<":albums">>
ReleaseGroupKey(id) == <<RELEASE_GROUP_PREFIX>> \o Tok(id)
ReleaseGroupMbidKey(mbid) == <<RELEASE_GROUP_PREFIX, "mbid:">> \o Tok(mbid)
ReleaseGroupReleasesKey(id) == <<RELEASE_GROUP_PREFIX>> \o Tok(id) \o <<":releases">>
CoverArtKey(mbid) == <<COVER_ART_PREFIX>> \o Tok(mbid)
MusicCache_searchKey(query) == <<SEARCH_PREFIX, EncodeURIComponent(ToLowerCase(query))>>
MusicStorage_searchKey(query) == <<SEARCH_PREFIX, ToLowerCase(query)>>

\* client.set(key, text) followed by client.expire(key, ttl)
SetWithExpire(d, k, text, ttl, now) == RedisExpire(RedisSet(d, k, text), k, ttl, now)

\* const data = await client.get(key); if (!data) return null; return JSON.parse(data)
GetParsed(d, k) ==
    LET r == RedisGet(d, k)
    IN IF r.st = "nil" THEN Null
       ELSE IF r.st = "wrongtype" THEN WrongType
       ELSE JSONParse(r.val)

MusicCache_cacheAlbum(d, album, now) ==
    SetWithExpire(d, AlbumKey(album.id), JSONStringify(album, AlbumFields), DEFAULT_TTL, now)
MusicCache_getCachedAlbum(d, albumId) == GetParsed(d, AlbumKey(albumId))
MusicCache_cacheAlbumByMBID(d, mbid, album, now) ==
    SetWithExpire(d, AlbumMbidKey(mbid), JSONStringify(album, AlbumFields), DEFAULT_TTL, now)
MusicCache_getCachedAlbumByMBID(d, mbid) == GetParsed(d, AlbumMbidKey(mbid))

MusicCache_cacheArtist(d, artist, now) ==
    SetWithExpire(d, ArtistKey(artist.id), JSONStringify(artist, ArtistFields), DEFAULT_TTL, now)
MusicCache_getCachedArtist(d, artistId) == GetParsed(d, ArtistKey(artistId))
MusicCache_cacheArtistByMBID(d, mbid, artist, now) ==
    SetWithExpire(d, ArtistMbidKey(mbid), JSONStringify(artist, ArtistFields), DEFAULT_TTL, now)
MusicCache_getCachedArtistByMBID(d, mbid) == GetParsed(d, ArtistMbidKey(mbid))

MusicCache_cacheSearchResults(d, query, results, now) ==
    SetWithExpire(d, MusicCache_searchKey(query), StringifySearchResult(results), SEARCH_TTL, now)
MusicCache_getCachedSearchResults(d, query) == GetParsed(d, MusicCache_searchKey(query))

MusicCache_cacheArtistAlbums(d, artistId, albums, now) ==
    SetWithExpire(d, ArtistAlbumsKey(artistId), JSONStringifyList(albums, AlbumFields),
                  DEFAULT_TTL, now)
MusicCache_getCachedArtistAlbums(d, artistId) == GetParsed(d, ArtistAlbumsKey(artistId))

\* a wrong variant, for comparison: the cover-art entry with the entity TTL
MusicCache_cacheCoverArt_entityTtl(d, mbid, coverArtUrl, now) ==
    SetWithExpire(d, CoverArtKey(mbid), coverArtUrl, DEFAULT_TTL, now)
MusicCache_cacheCoverArt(d, mbid, coverArtUrl, now) ==
    SetWithExpire(d, CoverArtKey(mbid), coverArtUrl, COVER_ART_TTL, now)
\* if (!coverArtData) return null: the empty string is falsy too
MusicCache_getCachedCoverArt(d, mbid) ==
    LET r == RedisGet(d, CoverArtKey(mbid))
    IN IF r.st = "nil" THEN Null
       ELSE IF r.st = "wrongtype" THEN WrongType
       ELSE IF r.val = "" THEN Null
       ELSE [url |-> r.val]

MusicCache_cacheReleaseGroup(d, releaseGroup, now) ==
    SetWithExpire(d, ReleaseGroupKey(releaseGroup.id),
                  JSONStringify(releaseGroup, ReleaseGroupFields), DEFAULT_TTL, now)
MusicCache_getCachedReleaseGroup(d, releaseGroupId) == GetParsed(d, ReleaseGroupKey(releaseGroupId))
MusicCache_cacheReleaseGroupByMBID(d, mbid, releaseGroup, now) ==
    SetWithExpire(d, ReleaseGroupMbidKey(mbid),
                  JSONStringify(releaseGroup, ReleaseGroupFields), DEFAULT_TTL, now)
MusicCache_getCachedReleaseGroupByMBID(d, mbid) == GetParsed(d, ReleaseGroupMbidKey(mbid))

\* a wrong variant, for comparison: the new releases are appended to the cached list
MusicCache_cacheReleaseGroupReleases_append(d, releaseGroupId, releases, now) ==
    LET k == ReleaseGroupReleasesKey(releaseGroupId)
        r == RedisGet(d, k)
        old == IF r.st = "ok" /\ r.val.json = "array" THEN r.val.items ELSE <<>>
    IN SetWithExpire(d, k,
           [json |-> "array", items |-> old \o JSONStringifyList(releases, AlbumFields).items],
           DEFAULT_TTL, now)
MusicCache_cacheReleaseGroupReleases(d, releaseGroupId, releases, now) ==
    SetWithExpire(d, ReleaseGroupReleasesKey(releaseGroupId),
                  JSONStringifyList(releases, AlbumFields), DEFAULT_TTL, now)
MusicCache_getCachedReleaseGroupReleases(d, releaseGroupId) ==
    GetParsed(d, ReleaseGroupReleasesKey(releaseGroupId))

MusicCache_invalidateAlbum(d, albumId) == RedisDel(d, AlbumKey(albumId))
\* a wrong variant, for comparison: only the artist entry is deleted
MusicCache_invalidateArtist_entryOnly(d, artistId) == RedisDel(d, ArtistKey(artistId))
MusicCache_invalidateArtist(d, artistId) ==
    RedisDel(RedisDel(d, ArtistKey(artistId)), ArtistAlbumsKey(artistId))

\* keys("search:*") and del(...keys)
MusicCache_clearSearchCache(d) ==
    LET keys == RedisKeys(d, SEARCH_PREFIX)
    IN [data |-> [k \in DOMAIN d.data \ keys |-> d.data[k]],
        exp |-> [k \in DOMAIN d.exp \ keys |-> d.exp[k]]]

----------------------------------------------------------------------------
(* MusicStorage: the entity store without expiry, with the album hash index *)

AlbumHash(album) ==
    [title |-> album.title, artistName |-> album.artistName,
     id |-> album.id, artistId |-> album.artistId]

\* SET album:<id>, then HSET album:hash:<id>; the HSET can be refused
MusicStorage_cacheAlbumOk(d, album) ==
    RedisHSetOk(RedisSet(d, AlbumKey(album.id), JSONStringify(album, AlbumFields)),
                AlbumHashKey(album.id))
MusicStorage_cacheAlbum(d, album) ==
    RedisHSet(RedisSet(d, AlbumKey(album.id), JSONStringify(album, AlbumFields)),
              AlbumHashKey(album.id), AlbumHash(album))
MusicStorage_getCachedAlbum(d, albumId) == GetParsed(d, AlbumKey(albumId))

\* SET album:mbid:<mbid>, then HSET album:hash:<album.id>
MusicStorage_cacheAlbumByMBIDOk(d, mbid, album) ==
    RedisHSetOk(RedisSet(d, AlbumMbidKey(mbid), JSONStringify(album, AlbumFields)),
                AlbumHashKey(album.id))
MusicStorage_cacheAlbumByMBID(d, mbid, album) ==
    RedisHSet(RedisSet(d, AlbumMbidKey(mbid), JSONStringify(album, AlbumFields)),
              AlbumHashKey(album.id), AlbumHash(album))
MusicStorage_getCachedAlbumByMBID(d, mbid) == GetParsed(d, AlbumMbidKey(mbid))

MusicStorage_cacheArtist(d, artist) ==
    RedisSet(d, ArtistKey(artist.id), JSONStringify(artist, ArtistFields))
MusicStorage_getCachedArtist(d, artistId) == GetParsed(d, ArtistKey(artistId))
MusicStorage_cacheArtistByMBID(d, mbid, artist) ==
    RedisSet(d, ArtistMbidKey(mbid), JSONStringify(artist, ArtistFields))
MusicStorage_getCachedArtistByMBID(d, mbid) == GetParsed(d, ArtistMbidKey(mbid))

MusicStorage_cacheSearchResults(d, query, results, now) ==
    RedisExpire(RedisSet(d, MusicStorage_searchKey(query), StringifySearchResult(results)),
                MusicStorage_searchKey(query), STORAGE_SEARCH_TTL, now)
MusicStorage_getCachedSearchResults(d, query) ==
    GetParsed(d, MusicStorage_searchKey(query))

----------------------------------------------------------------------------
(* The cache operations as steps of the program, on sample records *)

MaxOps == 2
MaxStoreTicks == 1

Album(id, title, releaseDate, coverArtUrl) ==
    [id |-> id, title |-> title, artistName |-> "Y", artistId |-> "a1",
     releaseDate |-> releaseDate, coverArtUrl |-> coverArtUrl, releaseGroupId |-> "g1"]
Artist(id, name, country) ==
    [id |-> id, name |-> name, country |-> country, disambiguation |-> Undefined]
ReleaseGroup(id, title, firstReleaseDate) ==
    [id |-> id, title |-> title, artist |-> "Y", artistId |-> "a1",
     type |-> "Album", firstReleaseDate |-> firstReleaseDate]

\* ids are arbitrary strings: some start with a key prefix or end with a key suffix
AlbumIds == {"r1", "hash:r1"}
AlbumMbids == {"r1", "hash:r1"}
ArtistIds == {"a1", "a1:albums"}
ArtistMbids == {"a1"}
ReleaseGroupIds == {"g1", "g1:releases"}
ReleaseGroupMbids == {"g1"}
Queries == {"abba", "ABBA", " Abba"}
CoverMbids == {"r1"}
CoverUrls == {"", "https://coverartarchive.org/r1-500.jpg"}

Albums ==
    {Album(id, "X", Undefined, Undefined) : id \in AlbumIds}
    \cup {Album("r1", "X2", "2020-01-01", "/album-art/r1.jpg")}
Artists ==
    {Artist(id, "N", Undefined) : id \in ArtistIds} \cup {Artist("a1", "N2", "SE")}
ReleaseGroups ==
    {ReleaseGroup(id, "T", Undefined) : id \in ReleaseGroupIds}
    \cup {ReleaseGroup("g1", "T2", "2020")}
AlbumLists ==
    {<<>>,
     <<Album("r1", "X", Undefined, Undefined),
       Album("r1", "X2", "2020-01-01", "/album-art/r1.jpg")>>}
SearchResults ==
    {[albums |-> <<>>, artists |-> <<>>, total |-> 0],
     [albums |-> <<Album("r1", "X", Undefined, Undefined)>>,
      artists |-> <<Artist("a1", "N", Undefined)>>, total |-> 1]}

\* one operation of the cache API ran to its end (ok) or threw (~ok)
Op(name, arg, rec, newdb, ok) ==
    /\ opCount < MaxOps
    /\ db' = newdb
    /\ opCount' = opCount + 1
    /\ lastOp' = [op |-> name, arg |-> arg, rec |-> rec, at |-> redisTime, ok |-> ok]
    /\ UNCHANGED <<redisTime, storeTicks, batch>>
    /\ UNCHANGED limVars

CacheAlbum ==
    \E a \in Albums :
        Op("MusicCache.cacheAlbum", a.id, a, MusicCache_cacheAlbum(db, a, redisTime), TRUE)
CacheAlbumByMBID ==
    \E m \in AlbumMbids, a \in Albums :
        Op("MusicCache.cacheAlbumByMBID", m, a,
           MusicCache_cacheAlbumByMBID(db, m, a, redisTime), TRUE)
CacheArtist ==
    \E a \in Artists :
        Op("MusicCache.cacheArtist", a.id, a, MusicCache_cacheArtist(db, a, redisTime), TRUE)
CacheArtistByMBID ==
    \E m \in ArtistMbids, a \in Artists :
        Op("MusicCache.cacheArtistByMBID", m, a,
           MusicCache_cacheArtistByMBID(db, m, a, redisTime), TRUE)
CacheReleaseGroup ==
    \E g \in ReleaseGroups :
        Op("MusicCache.cacheReleaseGroup", g.id, g,
           MusicCache_cacheReleaseGroup(db, g, redisTime), TRUE)
CacheReleaseGroupByMBID ==
    \E m \in ReleaseGroupMbids, g \in ReleaseGroups :
        Op("MusicCache.cacheReleaseGroupByMBID", m, g,
           MusicCache_cacheReleaseGroupByMBID(db, m, g, redisTime), TRUE)
CacheSearchResults ==
    \E q \in Queries, r \in SearchResults :
        Op("MusicCache.cacheSearchResults", q, r,
           MusicCache_cacheSearchResults(db, q, r, redisTime), TRUE)
\* a write of a secondary collection; what its reader returned just before the write
\* is kept with the operation
ListOp(name, arg, rec, before, newdb) ==
    /\ opCount < MaxOps
    /\ db' = newdb
    /\ opCount' = opCount + 1
    /\ lastOp' = [op |-> name, arg |-> arg, rec |-> rec, at |-> redisTime, ok |-> TRUE,
                  before |-> before]
    /\ UNCHANGED <<redisTime, storeTicks, batch>>
    /\ UNCHANGED limVars
CacheArtistAlbums ==
    \E i \in ArtistIds, l \in AlbumLists :
        ListOp("MusicCache.cacheArtistAlbums", i, l,
               MusicCache_getCachedArtistAlbums(db, i),
               MusicCache_cacheArtistAlbums(db, i, l, redisTime))
CacheReleaseGroupReleases ==
    \E i \in ReleaseGroupIds, l \in AlbumLists :
        ListOp("MusicCache.cacheReleaseGroupReleases", i, l,
               MusicCache_getCachedReleaseGroupReleases(db, i),
               MusicCache_cacheReleaseGroupReleases(db, i, l, redisTime))
CacheCoverArt ==
    \E m \in CoverMbids, u \in CoverUrls :
        Op("MusicCache.cacheCoverArt", m, [url |-> u],
           MusicCache_cacheCoverArt(db, m, u, redisTime), TRUE)
InvalidateAlbum ==
    \E i \in AlbumIds :
        Op("MusicCache.invalidateAlbum", i, Null, MusicCache_invalidateAlbum(db, i), TRUE)
InvalidateArtist ==
    \E i \in ArtistIds :
        Op("MusicCache.invalidateArtist", i, Null, MusicCache_invalidateArtist(db, i), TRUE)
ClearSearchCache ==
    Op("MusicCache.clearSearchCache", "", Null, MusicCache_clearSearchCache(db), TRUE)

StorageCacheAlbum ==
    \E a \in Albums :
        Op("MusicStorage.cacheAlbum", a.id, a, MusicStorage_cacheAlbum(db, a),
           MusicStorage_cacheAlbumOk(db, a))
StorageCacheAlbumByMBID ==
    \E m \in AlbumMbids, a \in Albums :
        Op("MusicStorage.cacheAlbumByMBID", m, a, MusicStorage_cacheAlbumByMBID(db, m, a),
           MusicStorage_cacheAlbumByMBIDOk(db, m, a))
StorageCacheArtist ==
    \E a \in Artists :
        Op("MusicStorage.cacheArtist", a.id, a, MusicStorage_cacheArtist(db, a), TRUE)
StorageCacheArtistByMBID ==
    \E m \in ArtistMbids, a \in Artists :
        Op("MusicStorage.cacheArtistByMBID", m, a,
           MusicStorage_cacheArtistByMBID(db, m, a), TRUE)
StorageCacheSearchResults ==
    \E q \in Queries, r \in SearchResults :
        Op("MusicStorage.cacheSearchResults", q, r,
           MusicStorage_cacheSearchResults(db, q, r, redisTime), TRUE)

\* time passes in the store: to just before or just after some key's expiry, or,
\* when no key expires, by more than a DEFAULT_TTL; keys whose expiry has passed are gone
TickTargets ==
    IF DOMAIN db.exp = {}
    THEN {redisTime + DEFAULT_TTL + 1}
    ELSE {db.exp[k] - 1 : k \in DOMAIN db.exp} \cup {db.exp[k] + 1 : k \in DOMAIN db.exp}
StoreTick ==
    /\ lastOp.op # "none"
    /\ storeTicks < MaxStoreTicks
    /\ storeTicks' = storeTicks + 1
    /\ \E t \in TickTargets :
        /\ t > redisTime
        /\ redisTime' = t
        /\ db' = RedisPurge(db, t)
    /\ UNCHANGED <<opCount, lastOp, batch>>
    /\ UNCHANGED limVars

CacheInit == LimIdle /\ StoreIdle

CacheNext ==
    \/ CacheAlbum
    \/ CacheAlbumByMBID
    \/ CacheArtist
    \/ CacheArtistByMBID
    \/ CacheReleaseGroup
    \/ CacheReleaseGroupByMBID
    \/ CacheSearchResults
    \/ CacheArtistAlbums
    \/ CacheReleaseGroupReleases
    \/ CacheCoverArt
    \/ InvalidateAlbum
    \/ InvalidateArtist
    \/ ClearSearchCache
    \/ StorageCacheAlbum
    \/ StorageCacheAlbumByMBID
    \/ StorageCacheArtist
    \/ StorageCacheArtistByMBID
    \/ StorageCacheSearchResults
    \/ StoreTick

SpecCache == CacheInit /\ [][CacheNext]_vars

----------------------------------------------------------------------------
(* What a reader sees after the latest operation *)

MusicCacheEntityWrites ==
    {"MusicCache.cacheAlbum", "MusicCache.cacheAlbumByMBID", "MusicCache.cacheArtist",
     "MusicCache.cacheArtistByMBID", "MusicCache.cacheReleaseGroup",
     "MusicCache.cacheReleaseGroupByMBID"}
MusicStorageEntityWrites ==
    {"MusicStorage.cacheAlbum", "MusicStorage.cacheAlbumByMBID", "MusicStorage.cacheArtist",
     "MusicStorage.cacheArtistByMBID"}
EntityWrites == MusicCacheEntityWrites \cup MusicStorageEntityWrites
ListWrites == {"MusicCache.cacheArtistAlbums", "MusicCache.cacheReleaseGroupReleases"}
SearchWrites == {"MusicCache.cacheSearchResults", "MusicStorage.cacheSearchResults"}
CoverWrites == {"MusicCache.cacheCoverArt"}
AllWrites == EntityWrites \cup ListWrites \cup SearchWrites \cup CoverWrites

\* the getCached operation that matches a cache operation, applied to its argument
ReadBack(d, op, arg) ==
    CASE op = "MusicCache.cacheAlbum" -> MusicCache_getCachedAlbum(d, arg)
      [] op = "MusicCache.cacheAlbumByMBID" -> MusicCache_getCachedAlbumByMBID(d, arg)
      [] op = "MusicCache.cacheArtist" -> MusicCache_getCachedArtist(d, arg)
      [] op = "MusicCache.cacheArtistByMBID" -> MusicCache_getCachedArtistByMBID(d, arg)
      [] op = "MusicCache.cacheReleaseGroup" -> MusicCache_getCachedReleaseGroup(d, arg)
      [] op = "MusicCache.cacheReleaseGroupByMBID" ->
            MusicCache_getCachedReleaseGroupByMBID(d, arg)
      [] op = "MusicCache.cacheArtistAlbums" -> MusicCache_getCachedArtistAlbums(d, arg)
      [] op = "MusicCache.cacheReleaseGroupReleases" ->
            MusicCache_getCachedReleaseGroupReleases(d, arg)
      [] op = "MusicCache.cacheSearchResults" -> MusicCache_getCachedSearchResults(d, arg)
      [] op = "MusicCache.cacheCoverArt" -> MusicCache_getCachedCoverArt(d, arg)
      [] op = "MusicStorage.cacheAlbum" -> MusicStorage_getCachedAlbum(d, arg)
      [] op = "MusicStorage.cacheAlbumByMBID" -> MusicStorage_getCachedAlbumByMBID(d, arg)
      [] op = "MusicStorage.cacheArtist" -> MusicStorage_getCachedArtist(d, arg)
      [] op = "MusicStorage.cacheArtistByMBID" -> MusicStorage_getCachedArtistByMBID(d, arg)
      [] op = "MusicStorage.cacheSearchResults" -> MusicStorage_getCachedSearchResults(d, arg)

\* the properties of the record kind an entity operation writes
FieldsOf(op) ==
    IF op \in {"MusicCache.cacheAlbum", "MusicCache.cacheAlbumByMBID",
               "MusicStorage.cacheAlbum", "MusicStorage.cacheAlbumByMBID"}
    THEN AlbumFields
    ELSE IF op \in {"MusicCache.cacheArtist", "MusicCache.cacheArtistByMBID",
                    "MusicStorage.cacheArtist", "MusicStorage.cacheArtistByMBID"}
    THEN ArtistFields
    ELSE ReleaseGroupFields

\* two objects agree on every property of the list (undefined on both sides counts)
EqualInAllFields(a, b, fields) ==
    \A i \in DOMAIN fields : Field(a, fields[i]) = Field(b, fields[i])

IsAbsent(r) == DOMAIN r = {"null"}
IsError(r) == DOMAIN r = {"error"}

\* the latest operation is a completed entity write that no expiry has undone yet
EntityWriteInEffect ==
    /\ lastOp.op \in EntityWrites
    /\ lastOp.ok
    /\ lastOp.op \in MusicCacheEntityWrites => redisTime < lastOp.at + DEFAULT_TTL

(* C2: round trip. After cache<Kind>(r) or cache<Kind>ByMBID(m, r) has completed,
   and before the entry's expiry or any other operation, the matching getCached
   operation returns a record equal to r in all fields. *)
C2_RoundTrip ==
    EntityWriteInEffect =>
        EqualInAllFields(ReadBack(db, lastOp.op, lastOp.arg), lastOp.rec, FieldsOf(lastOp.op))

\* a record with optional fields set was written by MBID, time has passed, and it is read back
C2_Witness ==
    /\ EntityWriteInEffect
    /\ lastOp.op = "MusicCache.cacheAlbumByMBID"
    /\ lastOp.rec.releaseDate # Undefined
    /\ redisTime > lastOp.at
    /\ MusicCache_getCachedAlbumByMBID(db, lastOp.arg).title = lastOp.rec.title

----------------------------------------------------------------------------
(* Frame properties of one operation: the operation a step ran is lastOp' *)

OpStep == opCount' = opCount + 1

ByIdWrites ==
    {"MusicCache.cacheAlbum", "MusicCache.cacheArtist", "MusicCache.cacheReleaseGroup",
     "MusicStorage.cacheAlbum", "MusicStorage.cacheArtist"}
ByMBIDWrites == EntityWrites \ ByIdWrites
Invalidations == {"MusicCache.invalidateAlbum", "MusicCache.invalidateArtist"}

\* the by-MBID reader of the kind and class of an operation, and its by-id reader
ReadByMBID(d, op, x) ==
    CASE op \in {"MusicCache.cacheAlbum", "MusicCache.invalidateAlbum"} ->
            MusicCache_getCachedAlbumByMBID(d, x)
      [] op \in {"MusicCache.cacheArtist", "MusicCache.invalidateArtist"} ->
            MusicCache_getCachedArtistByMBID(d, x)
      [] op = "MusicCache.cacheReleaseGroup" -> MusicCache_getCachedReleaseGroupByMBID(d, x)
      [] op = "MusicStorage.cacheAlbum" -> MusicStorage_getCachedAlbumByMBID(d, x)
      [] op = "MusicStorage.cacheArtist" -> MusicStorage_getCachedArtistByMBID(d, x)
ReadById(d, op, x) ==
    CASE op = "MusicCache.cacheAlbumByMBID" -> MusicCache_getCachedAlbum(d, x)
      [] op = "MusicCache.cacheArtistByMBID" -> MusicCache_getCachedArtist(d, x)
      [] op = "MusicCache.cacheReleaseGroupByMBID" -> MusicCache_getCachedReleaseGroup(d, x)
      [] op = "MusicStorage.cacheAlbumByMBID" -> MusicStorage_getCachedAlbum(d, x)
      [] op = "MusicStorage.cacheArtistByMBID" -> MusicStorage_getCachedArtist(d, x)

(* C3: dual-key independence. A step that runs cache<Kind>(r) with r.id = x, or
   invalidate<Kind>(x), leaves what getCached<Kind>ByMBID(x) returns unchanged, and
   a step that runs cache<Kind>ByMBID(x, r) leaves what getCached<Kind>(x) returns
   unchanged. *)
C3_DualKeyIndependence ==
    [][OpStep =>
        /\ lastOp'.op \in ByIdWrites \cup Invalidations =>
              ReadByMBID(db', lastOp'.op, lastOp'.arg) = ReadByMBID(db, lastOp'.op, lastOp'.arg)
        /\ lastOp'.op \in ByMBIDWrites =>
              ReadById(db', lastOp'.op, lastOp'.arg) = ReadById(db, lastOp'.op, lastOp'.arg)
      ]_vars

----------------------------------------------------------------------------
(* Expiry *)

\* the TTL an operation gives the key it writes; 0 where it gives none
TtlOf(op) ==
    CASE op \in MusicCacheEntityWrites \cup ListWrites -> DEFAULT_TTL
      [] op = "MusicCache.cacheSearchResults" -> SEARCH_TTL
      [] op = "MusicStorage.cacheSearchResults" -> STORAGE_SEARCH_TTL
      [] op = "MusicCache.cacheCoverArt" -> COVER_ART_TTL
      [] OTHER -> 0

\* the TTL the kind of an operation's record has
KindTtl(op) ==
    CASE op \in EntityWrites \cup ListWrites -> DEFAULT_TTL
      [] op = "MusicCache.cacheSearchResults" -> SEARCH_TTL
      [] op = "MusicStorage.cacheSearchResults" -> STORAGE_SEARCH_TTL
      [] op = "MusicCache.cacheCoverArt" -> COVER_ART_TTL

\* what the matching reader returns for a record that is in the store
Stored(op, rec) ==
    CASE op \in EntityWrites -> JSONParse(JSONStringify(rec, FieldsOf(op)))
      [] op \in ListWrites -> JSONParse(JSONStringifyList(rec, AlbumFields))
      [] op \in SearchWrites -> JSONParse(StringifySearchResult(rec))
      [] op \in CoverWrites -> rec

LastWriteCompleted == lastOp.op \in AllWrites /\ lastOp.ok
LastRead == ReadBack(db, lastOp.op, lastOp.arg)

(* C4 as stated: every cache write gives its key the TTL of its kind: until another
   operation runs, the record is returned at any time before the TTL has elapsed and
   is absent at any time after. *)
C4_EveryWriteExpires ==
    LastWriteCompleted =>
        /\ redisTime < lastOp.at + KindTtl(lastOp.op) => LastRead = Stored(lastOp.op, lastOp.rec)
        /\ redisTime > lastOp.at + KindTtl(lastOp.op) => IsAbsent(LastRead)

(* C4, amended: the MusicCache writes and MusicStorage.cacheSearchResults give their
   key the TTL of its kind: until another operation runs, the record is returned
   before the TTL has elapsed (an empty cover-art URL reads as absent) and is absent
   from then on. The MusicStorage entity writes give no TTL: the record is returned
   at any later time until another operation runs. *)
C4_TTLPolicy ==
    LastWriteCompleted =>
        IF lastOp.op \in MusicStorageEntityWrites
        THEN LastRead = Stored(lastOp.op, lastOp.rec)
        ELSE /\ redisTime < lastOp.at + TtlOf(lastOp.op) =>
                  IF lastOp.op \in CoverWrites /\ lastOp.rec.url = ""
                  THEN IsAbsent(LastRead)
                  ELSE LastRead = Stored(lastOp.op, lastOp.rec)
             /\ redisTime >= lastOp.at + TtlOf(lastOp.op) => IsAbsent(LastRead)

\* a cover-art URL was cached, its seven days have passed, and it is gone
C4_Witness ==
    /\ LastWriteCompleted
    /\ lastOp.op = "MusicCache.cacheCoverArt"
    /\ lastOp.rec.url # ""
    /\ redisTime > lastOp.at + COVER_ART_TTL
    /\ IsAbsent(LastRead)

----------------------------------------------------------------------------
(* Invalidation *)

\* reads of everything an invalidation is said to leave alone
OtherEntries(d) ==
    [albumsByMBID |-> [m \in AlbumMbids |-> MusicCache_getCachedAlbumByMBID(d, m)],
     artistsByMBID |-> [m \in ArtistMbids |-> MusicCache_getCachedArtistByMBID(d, m)],
     groupsByMBID |-> [m \in ReleaseGroupMbids |-> MusicCache_getCachedReleaseGroupByMBID(d, m)],
     artistAlbums |-> [i \in ArtistIds |-> MusicCache_getCachedArtistAlbums(d, i)],
     groupReleases |-> [i \in ReleaseGroupIds |-> MusicCache_getCachedReleaseGroupReleases(d, i)],
     searches |-> [q \in Queries |-> MusicCache_getCachedSearchResults(d, q)],
     storageSearches |-> [q \in Queries |-> MusicStorage_getCachedSearchResults(d, q)]]

(* C5 as stated: a step that runs invalidate<Kind>(id) leaves every external-id
   entry, every secondary collection and every search-result entry unchanged. *)
C5_NoCascade ==
    [][OpStep /\ lastOp'.op \in Invalidations => OtherEntries(db') = OtherEntries(db)]_vars

\* the keys an invalidation deletes
InvalidatedKeys(op, id) ==
    IF op = "MusicCache.invalidateAlbum" THEN {AlbumKey(id)}
    ELSE {ArtistKey(id), ArtistAlbumsKey(id)}

(* C5, amended: a step that runs invalidateAlbum(id) deletes the key album:<id> and
   nothing else; a step that runs invalidateArtist(id) deletes the keys artist:<id>
   and artist:<id>:albums and nothing else. Every other key keeps its value and its
   expiry; there is no invalidation for release groups. *)
C5_InvalidationFrame ==
    [][OpStep /\ lastOp'.op \in Invalidations =>
        LET gone == InvalidatedKeys(lastOp'.op, lastOp'.arg)
        IN /\ DOMAIN db'.data = DOMAIN db.data \ gone
           /\ \A k \in DOMAIN db'.data : db'.data[k] = db.data[k]
           /\ DOMAIN db'.exp = DOMAIN db.exp \ gone
           /\ \A k \in DOMAIN db'.exp : db'.exp[k] = db.exp[k]
      ]_vars

\* an album written by MusicStorage was invalidated: its entry is gone, its hash stays
C5_Witness ==
    /\ lastOp.op = "MusicCache.invalidateAlbum"
    /\ AlbumKey(lastOp.arg) \notin DOMAIN db.data
    /\ AlbumHashKey(lastOp.arg) \in DOMAIN db.data

----------------------------------------------------------------------------
(* Secondary collections *)

\* the last operation wrote a secondary collection whose TTL has not elapsed
ListWriteInEffect ==
    /\ lastOp.op \in ListWrites
    /\ lastOp.ok
    /\ redisTime < lastOp.at + DEFAULT_TTL

\* the reader returned a list
IsList(r) == DOMAIN r = {"list"}

(* C13: secondary collections are whole-list overwrite caches. After
   cacheReleaseGroupReleases(g, L) or cacheArtistAlbums(a, L), whatever was cached
   for that id before, the get operation returns exactly L, element by element in
   its order: never a concatenation or a merge with the list cached earlier. *)
C13_WholeListOverwrite ==
    ListWriteInEffect =>
        /\ IsList(LastRead)
        /\ Len(LastRead.list) = Len(lastOp.rec)
        /\ \A i \in DOMAIN lastOp.rec :
              EqualInAllFields(LastRead.list[i], lastOp.rec[i], AlbumFields)

\* a two-album list was cached for a release group that already had a two-album
\* list, and the reader returns two albums
C13_Witness ==
    /\ ListWriteInEffect
    /\ lastOp.op = "MusicCache.cacheReleaseGroupReleases"
    /\ IsList(lastOp.before)
    /\ Len(lastOp.before.list) = 2
    /\ Len(lastOp.rec) = 2
    /\ Len(LastRead.list) = 2
    /\ LastRead.list[2].title = "X2"

----------------------------------------------------------------------------
(* Search-cache keys *)

\* case-fold plus trim, on the queries of the model
CaseFoldTrim(q) ==
    CASE q = "ABBA" -> "abba"
      [] q = " Abba" -> "abba"
      [] OTHER -> q

\* two queries with the same words in a different order
WordOrderQueries == {"abba gold", "gold abba"}

\* the last operation cached a search result whose TTL has not elapsed
SearchWriteInEffect ==
    /\ lastOp.op \in SearchWrites
    /\ lastOp.ok
    /\ redisTime < lastOp.at + TtlOf(lastOp.op)

(* C12: search-cache key normalization is case-fold plus trim. After
   cacheSearchResults(q, r), getCachedSearchResults(q2) returns r for every q2 that
   differs from q only in letter case and/or leading and trailing whitespace; queries
   that differ in word order have distinct entries. *)
C12_KeyNormalization ==
    /\ SearchWriteInEffect =>
          \A q2 \in Queries :
              CaseFoldTrim(q2) = CaseFoldTrim(lastOp.arg) =>
                  ReadBack(db, lastOp.op, q2) = Stored(lastOp.op, lastOp.rec)
    /\ \A q1, q2 \in WordOrderQueries :
          q1 # q2 => /\ MusicCache_searchKey(q1) # MusicCache_searchKey(q2)
                     /\ MusicStorage_searchKey(q1) # MusicStorage_searchKey(q2)

\* what the keys do: queries that differ only in letter case share an entry, and
\* queries that differ in word order do not
C12_CaseFoldOnly ==
    /\ SearchWriteInEffect =>
          \A q2 \in Queries :
              ToLowerCase(q2) = ToLowerCase(lastOp.arg) =>
                  ReadBack(db, lastOp.op, q2) = Stored(lastOp.op, lastOp.rec)
    /\ \A q1, q2 \in WordOrderQueries :
          q1 # q2 => /\ MusicCache_searchKey(q1) # MusicCache_searchKey(q2)
                     /\ MusicStorage_searchKey(q1) # MusicStorage_searchKey(q2)

----------------------------------------------------------------------------
(* MusicBrainzClient.search and the calls it makes *)

MaxSearches == 1

\* makeRequest run by a single caller from entry to return, waits included:
\* lim is the limiter's state, ok whether the response had a 2xx status
\* a wrong variant, for comparison: the request is recorded whatever the response
makeRequest_countsFailures(lim, ok) ==
    LET now == lim.clock
        pruned == PruneWindow(lim.requestTimes, now)
    IN [clock |-> now, lastRequestTime |-> now, requestTimes |-> Append(pruned, now),
        dispatched |-> Append(lim.dispatched, now)]
makeRequest(lim, ok) ==
    LET now == lim.clock
        pruned == PruneWindow(lim.requestTimes, now)
        burstWait == IF Len(pruned) >= BURST_LIMIT /\ BURST_WINDOW - (now - pruned[1]) > 0
                     THEN BURST_WINDOW - (now - pruned[1]) ELSE 0
        timeSinceLastRequest == now - lim.lastRequestTime
        spaceWait == IF timeSinceLastRequest < RATE_LIMIT_DELAY /\ Len(pruned) < BURST_LIMIT
                     THEN RATE_LIMIT_DELAY - timeSinceLastRequest ELSE 0
        sent == now + burstWait + spaceWait
    IN [clock |-> sent,
        lastRequestTime |-> IF ok THEN sent ELSE lim.lastRequestTime,
        requestTimes |-> IF ok THEN Append(pruned, sent) ELSE pruned,
        dispatched |-> Append(lim.dispatched, sent)]

\* a.date.localeCompare(b.date) on the dates of the model
DateRank(date) ==
    CASE date = "2019" -> 1
      [] date = "2020" -> 2
      [] OTHER -> 3

\* the comparator of data.releases.sort: dated before undated, then by date
ReleaseBefore(a, b) ==
    /\ a.date # Undefined
    /\ b.date = Undefined \/ DateRank(a.date) < DateRank(b.date)

\* Array.prototype.sort with that comparator (stable): an element's place is the
\* number of elements the comparator puts before it, earlier equals included
SortPlace(releases, i) ==
    1 + Cardinality({j \in DOMAIN releases :
                        \/ ReleaseBefore(releases[j], releases[i])
                        \/ ~ReleaseBefore(releases[i], releases[j]) /\ j < i})
\* a variant for comparison: the releases in the order the provider listed them
SortReleases_asListed(releases) == releases
SortReleases(releases) ==
    [k \in DOMAIN releases |->
        releases[CHOOSE i \in DOMAIN releases : SortPlace(releases, i) = k]]

\* the value getCoverArtUrl returns for a release: the metadata URL
CoverArtMetadataUrl(mbid) ==
    CASE mbid = "r1" -> "https://coverartarchive.org/release/r1"
      [] mbid = "r2" -> "https://coverartarchive.org/release/r2"
      [] mbid = "r3" -> "https://coverartarchive.org/release/r3"
      [] mbid = "r4" -> "https://coverartarchive.org/release/r4"
      [] OTHER -> "https://coverartarchive.org/release/"
MusicBrainzClient_getCoverArtUrl(mbid) == CoverArtMetadataUrl(mbid)

\* getReleaseGroupReleases, given the outcome of its request: [st |-> "error"], or
\* [st |-> "ok", title, hasReleases, releases] (data.releases may be missing)
getReleaseGroupReleases(releaseGroupId, limit, artistName, artistId, data) ==
    IF data.st = "error" THEN <<>>
    ELSE IF ~data.hasReleases THEN <<>>
    ELSE LET sortedReleases == SortReleases(data.releases)
             limitedReleases ==
                 SubSeq(sortedReleases, 1,
                        IF limit < Len(sortedReleases) THEN limit ELSE Len(sortedReleases))
         IN [i \in DOMAIN limitedReleases |->
                LET release == limitedReleases[i]
                    coverArtUrl == MusicBrainzClient_getCoverArtUrl(release.id)
                IN [id |-> release.id,
                    title |-> release.title,
                    artistName |-> IF artistName # Undefined THEN artistName ELSE data.title,
                    artistId |-> IF artistId # Undefined THEN artistId ELSE releaseGroupId,
                    releaseDate |-> release.date,
                    releaseGroupId |-> releaseGroupId,
                    coverArtUrl |-> IF coverArtUrl # "" THEN coverArtUrl ELSE Undefined]]

\* a variant for comparison: a group without releases contributes no album
SearchAlbums_releasesOnly(releaseGroup, releases) ==
    IF Len(releases) > 0
    THEN <<[releases[1] EXCEPT !.releaseGroupId = releaseGroup.id]>>
    ELSE <<>>

\* the album search() adds for a release group with an artist credit
SearchAlbums(releaseGroup, releases) ==
    IF Len(releases) > 0
    THEN <<[id |-> releases[1].id,
            title |-> releases[1].title,
            artistName |-> releases[1].artistName,
            artistId |-> releases[1].artistId,
            releaseDate |-> releases[1].releaseDate,
            releaseGroupId |-> releaseGroup.id,
            coverArtUrl |-> releases[1].coverArtUrl]>>
    ELSE <<[id |-> releaseGroup.id,
            title |-> releaseGroup.title,
            artistName |-> releaseGroup.creditName,
            artistId |-> releaseGroup.creditArtistId,
            releaseDate |-> releaseGroup.firstReleaseDate,
            releaseGroupId |-> releaseGroup.id]>>

\* the loop over data["release-groups"]: st carries the limiter, the store, the
\* albums so far and whether a cache write threw
RECURSIVE SearchGroups(_, _, _, _)
SearchGroups(groups, subs, storeUp, st) ==
    IF groups = <<>> \/ st.threw THEN st
    ELSE LET releaseGroup == Head(groups) IN
         IF ~releaseGroup.hasCredit THEN SearchGroups(Tail(groups), subs, storeUp, st)
         ELSE LET data == subs[releaseGroup.id]
                  releases == getReleaseGroupReleases(releaseGroup.id, 1,
                                  releaseGroup.creditName, releaseGroup.creditArtistId, data)
                  new == SearchAlbums(releaseGroup, releases)
                  wrote == new = <<>> \/ (storeUp /\ MusicStorage_cacheAlbumOk(st.d, new[1]))
              IN SearchGroups(Tail(groups), subs, storeUp,
                     [lim |-> makeRequest(st.lim, data.st = "ok"),
                      d |-> IF new # <<>> /\ storeUp
                            THEN MusicStorage_cacheAlbum(st.d, new[1]) ELSE st.d,
                      albums |-> st.albums \o new,
                      threw |-> ~wrote])


\* what the provider can answer; a release belongs to one release group
UpstreamGroup(id, hasCredit, firstReleaseDate) ==
    [id |-> id, title |-> "T", hasCredit |-> hasCredit, creditName |-> "Y",
     creditArtistId |-> "a1", type |-> "Album", firstReleaseDate |-> firstReleaseDate]
UpstreamRelease(id, date) == [id |-> id, title |-> "X", date |-> date]
FirstGroups == {UpstreamGroup("g1", c, f) : c \in BOOLEAN, f \in {Undefined, "2020"}}
SecondGroups == {UpstreamGroup("g2", c, Undefined) : c \in BOOLEAN}
GroupLists ==
    {<<>>} \cup {<<g>> : g \in FirstGroups}
    \cup {<<g, h>> : g \in FirstGroups, h \in SecondGroups}
UpstreamArtists == {<<>>, <<Artist("a1", "N", Undefined)>>}
SearchResponses ==
    {[ok |-> FALSE]}
    \cup {[ok |-> TRUE, groups |-> gs, artists |-> <<>>, count |-> Len(gs)] :
            gs \in GroupLists}
    \cup {[ok |-> TRUE, groups |-> <<>>, artists |-> as, count |-> 0] :
            as \in UpstreamArtists}
RequestFailed == [st |-> "error"]
ReleasesData(hasReleases, releases) ==
    [st |-> "ok", title |-> "T", hasReleases |-> hasReleases, releases |-> releases]
FirstGroupData ==
    {RequestFailed, ReleasesData(FALSE, <<>>), ReleasesData(TRUE, <<>>),
     ReleasesData(TRUE, <<UpstreamRelease("r1", "2020")>>),
     ReleasesData(TRUE, <<UpstreamRelease("r3", Undefined), UpstreamRelease("r1", "2020"),
                          UpstreamRelease("r2", "2019")>>)}
SecondGroupData ==
    {RequestFailed, ReleasesData(TRUE, <<>>), ReleasesData(TRUE, <<UpstreamRelease("r4", "2019")>>)}
SubFetches == {[g1 |-> a, g2 |-> b] : a \in FirstGroupData, b \in SecondGroupData}

\* search(query): the request, the loop over the release groups, the artists, the
\* result; a failed request or a failed cache write makes it throw
SearchOutcome(lim, d, resp, subs, storeUp) ==
    IF ~resp.ok
    THEN [lim |-> makeRequest(lim, FALSE), d |-> d, ok |-> FALSE, result |-> Null]
    ELSE LET st == SearchGroups(resp.groups, subs, storeUp,
                       [lim |-> makeRequest(lim, TRUE), d |-> d, albums |-> <<>>,
                        threw |-> FALSE])
         IN [lim |-> st.lim, d |-> st.d, ok |-> ~st.threw,
             result |-> IF st.threw THEN Null
                        ELSE [albums |-> st.albums, artists |-> resp.artists,
                              total |-> resp.count]]

Search ==
    /\ opCount < MaxSearches
    /\ \A p \in Callers : pc[p] = "idle"
    /\ \E resp \in SearchResponses, subs \in SubFetches, storeUp \in BOOLEAN :
        LET out == SearchOutcome(
                       [clock |-> clock, lastRequestTime |-> lastRequestTime,
                        requestTimes |-> requestTimes, dispatched |-> dispatched],
                       db, resp, subs, storeUp)
        IN /\ clock' = out.lim.clock
           /\ lastRequestTime' = out.lim.lastRequestTime
           /\ requestTimes' = out.lim.requestTimes
           /\ dispatched' = out.lim.dispatched
           /\ db' = out.d
           /\ lastOp' = [op |-> "MusicBrainzClient.search",
                         arg |-> [resp |-> resp, subs |-> subs, storeUp |-> storeUp],
                         rec |-> out.result, at |-> redisTime, ok |-> out.ok]
    /\ opCount' = opCount + 1
    /\ UNCHANGED <<pc, callNow, wakeAt, redisTime, storeTicks, batch>>

\* the release lists a release group can come with, and the limits asked for
DatedReleases == {UpstreamRelease("r1", "2020"), UpstreamRelease("r2", "2019")}
UndatedReleases == {UpstreamRelease("r3", Undefined), UpstreamRelease("r4", Undefined)}
GroupReleases == DatedReleases \cup UndatedReleases
ReleaseLists ==
    {<<>>} \cup {<<a>> : a \in GroupReleases}
    \cup {l \in GroupReleases \X GroupReleases : l[1] # l[2]}
    \cup {l \in UndatedReleases \X DatedReleases \X GroupReleases : l[3] \notin {l[1], l[2]}}
ReleaseGroupData ==
    {RequestFailed, ReleasesData(FALSE, <<>>)} \cup {ReleasesData(TRUE, l) : l \in ReleaseLists}
DefaultLimit == 5
Limits == {1, 2, DefaultLimit}

\* getReleaseGroupReleases from call to return: one request, then the sort and
\* the slice; it returns in every case
GetReleaseGroupReleases ==
    \E limit \in Limits, data \in ReleaseGroupData :
        /\ opCount < MaxSearches
        /\ \A p \in Callers : pc[p] = "idle"
        /\ LET lim == makeRequest([clock |-> clock, lastRequestTime |-> lastRequestTime,
                                   requestTimes |-> requestTimes, dispatched |-> dispatched],
                                  data.st = "ok")
           IN /\ clock' = lim.clock
              /\ lastRequestTime' = lim.lastRequestTime
              /\ requestTimes' = lim.requestTimes
              /\ dispatched' = lim.dispatched
        /\ lastOp' = [op |-> "MusicBrainzClient.getReleaseGroupReleases",
                      arg |-> [limit |-> limit, data |-> data],
                      rec |-> getReleaseGroupReleases("g1", limit, Undefined, Undefined, data),
                      at |-> redisTime, ok |-> TRUE]
        /\ opCount' = opCount + 1
        /\ UNCHANGED <<pc, callNow, wakeAt, redisTime, storeTicks, db, batch>>

SearchInit == LimIdle /\ StoreIdle
SearchNext == Search \/ GetReleaseGroupReleases
SpecSearch == SearchInit /\ [][SearchNext]_vars

----------------------------------------------------------------------------
(* Properties of search() *)

LastSearch == lastOp.op = "MusicBrainzClient.search"
\* the release groups of the answered search that have an artist credit
CreditedGroups ==
    {i \in DOMAIN lastOp.arg.resp.groups : lastOp.arg.resp.groups[i].hasCredit}
\* the sub-fetch for a group failed or listed no release
NoReleases(data) == data.st = "error" \/ ~data.hasReleases \/ data.releases = <<>>

\* the release group object search() builds for a credited group
SearchReleaseGroup(releaseGroup) ==
    [id |-> releaseGroup.id, title |-> releaseGroup.title,
     artist |-> releaseGroup.creditName, artistId |-> releaseGroup.creditArtistId,
     type |-> releaseGroup.type, firstReleaseDate |-> releaseGroup.firstReleaseDate]

(* C6: search degradation. When the search request is answered, search() throws only
   if a cache write fails, and for every release group of the answer that has an
   artist credit and whose release sub-fetch failed or listed no release, the result
   holds an album made from the group: its id and title, its first-release-date as the
   release date, no cover art. *)
C6_SearchDegradation ==
    LastSearch /\ lastOp.arg.resp.ok =>
        /\ lastOp.ok <=> (lastOp.arg.storeUp \/ CreditedGroups = {})
        /\ lastOp.ok =>
              \A i \in CreditedGroups :
                  LET g == lastOp.arg.resp.groups[i] IN
                  NoReleases(lastOp.arg.subs[g.id]) =>
                      \E k \in DOMAIN lastOp.rec.albums :
                          LET album == lastOp.rec.albums[k] IN
                          /\ album.id = g.id
                          /\ album.title = g.title
                          /\ album.releaseDate = g.firstReleaseDate
                          /\ Field(album, "coverArtUrl") = Undefined

\* a search returned although the sub-fetch of a dated, credited group failed
C6_Witness ==
    /\ LastSearch
    /\ lastOp.ok
    /\ \E i \in CreditedGroups :
          /\ lastOp.arg.subs[lastOp.arg.resp.groups[i].id].st = "error"
          /\ lastOp.arg.resp.groups[i].firstReleaseDate # Undefined
          /\ \E k \in DOMAIN lastOp.rec.albums :
                lastOp.rec.albums[k].id = lastOp.arg.resp.groups[i].id

(* C7: when search() returns, getCachedAlbum(album.id) returns every album of the
   result and getCachedReleaseGroup(group.id) returns every release group search()
   resolved from the answer. *)
C7_ResultsCached ==
    LastSearch /\ lastOp.ok =>
        /\ \A k \in DOMAIN lastOp.rec.albums :
              EqualInAllFields(MusicStorage_getCachedAlbum(db, lastOp.rec.albums[k].id),
                               lastOp.rec.albums[k], AlbumFields)
        /\ \A i \in CreditedGroups :
              LET rgObject == SearchReleaseGroup(lastOp.arg.resp.groups[i]) IN
              EqualInAllFields(MusicCache_getCachedReleaseGroup(db, rgObject.id),
                               rgObject, ReleaseGroupFields)

\* the album half of C7 alone: every album of the result is in the cache
SearchAlbumsCached ==
    LastSearch /\ lastOp.ok =>
        \A k \in DOMAIN lastOp.rec.albums :
            EqualInAllFields(MusicStorage_getCachedAlbum(db, lastOp.rec.albums[k].id),
                             lastOp.rec.albums[k], AlbumFields)

----------------------------------------------------------------------------
(* The single-record fetches getRelease, getArtist, getReleaseGroup *)

MaxFetches == 3

\* what the provider can answer to a single-record request
UpstreamRecord(id, hasCredit) ==
    [id |-> id, title |-> "X", name |-> "N", hasCredit |-> hasCredit, creditName |-> "Y",
     creditArtistId |-> "a1", date |-> "2020", releaseGroupId |-> "g1",
     country |-> Undefined, disambiguation |-> Undefined, type |-> "Album",
     firstReleaseDate |-> "2020"]
FetchAnswers ==
    {[st |-> "network"], [st |-> "http", status |-> 404], [st |-> "http", status |-> 503],
     [st |-> "malformed"]}
    \cup {[st |-> "ok", body |-> UpstreamRecord("r1", c)] : c \in BOOLEAN}

\* the response had a 2xx status: makeRequest records the request before it parses
Status2xx(answer) == answer.st \in {"ok", "malformed"}
\* makeRequest returned the parsed body
Answered(answer) == answer.st = "ok"

\* getRelease, given the answer to its request: every error ends in "return null"
getRelease(answer) ==
    IF ~Answered(answer) THEN Null
    ELSE IF ~answer.body.hasCredit THEN Null
    ELSE LET coverArtUrl == MusicBrainzClient_getCoverArtUrl(answer.body.id)
         IN [id |-> answer.body.id, title |-> answer.body.title,
             artistName |-> answer.body.creditName, artistId |-> answer.body.creditArtistId,
             releaseDate |-> answer.body.date, releaseGroupId |-> answer.body.releaseGroupId,
             coverArtUrl |-> IF coverArtUrl # "" THEN coverArtUrl ELSE Undefined]

getArtist(answer) ==
    IF ~Answered(answer) THEN Null
    ELSE [id |-> answer.body.id, name |-> answer.body.name,
          country |-> answer.body.country, disambiguation |-> answer.body.disambiguation]

getReleaseGroup(answer) ==
    IF ~Answered(answer) THEN Null
    ELSE IF ~answer.body.hasCredit THEN Null
    ELSE [id |-> answer.body.id, title |-> answer.body.title,
          artist |-> answer.body.creditName, artistId |-> answer.body.creditArtistId,
          type |-> answer.body.type, firstReleaseDate |-> answer.body.firstReleaseDate]

\* one single-record fetch from call to return; it returns in every case
Fetch(name, answer, result) ==
    /\ opCount < MaxFetches
    /\ \A p \in Callers : pc[p] = "idle"
    /\ LET lim == makeRequest([clock |-> clock, lastRequestTime |-> lastRequestTime,
                               requestTimes |-> requestTimes, dispatched |-> dispatched],
                              Status2xx(answer))
       IN /\ clock' = lim.clock
          /\ lastRequestTime' = lim.lastRequestTime
          /\ requestTimes' = lim.requestTimes
          /\ dispatched' = lim.dispatched
    /\ lastOp' = [op |-> name, arg |-> answer, rec |-> result, at |-> redisTime, ok |-> TRUE]
    /\ opCount' = opCount + 1
    /\ UNCHANGED <<pc, callNow, wakeAt, redisTime, storeTicks, db, batch>>

GetRelease ==
    \E answer \in FetchAnswers : Fetch("MusicBrainzClient.getRelease", answer, getRelease(answer))
GetArtist ==
    \E answer \in FetchAnswers : Fetch("MusicBrainzClient.getArtist", answer, getArtist(answer))
GetReleaseGroup ==
    \E answer \in FetchAnswers :
        Fetch("MusicBrainzClient.getReleaseGroup", answer, getReleaseGroup(answer))

FetchInit == LimIdle /\ StoreIdle
FetchNext == GetRelease \/ GetArtist \/ GetReleaseGroup
SpecFetch == FetchInit /\ [][FetchNext]_vars

FetchOps ==
    {"MusicBrainzClient.getRelease", "MusicBrainzClient.getArtist",
     "MusicBrainzClient.getReleaseGroup"}

(* C8: a single-record fetch returns absent only when the provider reported that
   there is no such record (404), and a transport failure, another non-2xx status
   or a malformed body makes it throw. *)
C8_ErrorsPropagate ==
    lastOp.op \in FetchOps =>
        /\ lastOp.ok /\ IsAbsent(lastOp.rec) =>
              lastOp.arg.st = "http" /\ lastOp.arg.status = 404
        /\ \/ lastOp.arg.st \in {"network", "malformed"}
           \/ lastOp.arg.st = "http" /\ lastOp.arg.status # 404
           => ~lastOp.ok

----------------------------------------------------------------------------
(* Cover art: getCoverArtUrl and the batch getCoverArtUrls *)

MaxCoverOps == 1

ReleaseIds == {"r1", "r2"}
BatchLists == {<<>>, <<"r1">>, <<"r1", "r2">>, <<"r2", "r1", "r2">>}

\* what the Cover Art Archive can answer for a release
Thumb500Url == "https://coverartarchive.org/front-500.jpg"
ImageUrl == "https://coverartarchive.org/image.jpg"
CoverAnswers ==
    {[st |-> "network"], [st |-> "http404"], [st |-> "malformed"],
     [st |-> "ok", images |-> <<>>],
     [st |-> "ok", images |-> <<[front |-> FALSE, thumb500 |-> Undefined, image |-> ImageUrl]>>],
     [st |-> "ok", images |-> <<[front |-> FALSE, thumb500 |-> Undefined, image |-> ImageUrl],
                                [front |-> TRUE, thumb500 |-> Thumb500Url, image |-> ImageUrl]>>]}

\* frontImage.thumbnails?.["500"] || frontImage.image
ImageChoice(image) == IF image.thumb500 # Undefined THEN image.thumb500 ELSE image.image

\* the front image, else the first image, else null
SelectCoverArt(images) ==
    LET fronts == {i \in DOMAIN images : images[i].front} IN
    IF fronts # {}
    THEN [url |-> ImageChoice(images[CHOOSE i \in fronts : \A j \in fronts : i <= j])]
    ELSE IF Len(images) > 0 THEN [url |-> ImageChoice(images[1])]
    ELSE Null

\* a settled promise
Fulfilled(d, value) == [d |-> d, status |-> "fulfilled", value |-> value]
Rejected(d) == [d |-> d, status |-> "rejected", value |-> Null]

\* getCoverArtUrl as it is: the metadata URL, whatever the archive would answer
getCoverArtUrl(d, mbid, answer, storeUp, now) ==
    Fulfilled(d, [url |-> MusicBrainzClient_getCoverArtUrl(mbid)])

\* the earlier getCoverArtUrl, with the cover-art cache: with the store down the read
\* throws and the write in the catch block throws again
getCoverArtUrl_cached(d, mbid, answer, storeUp, now) ==
    IF ~storeUp THEN Rejected(d)
    ELSE LET cachedUrl == MusicCache_getCachedCoverArt(d, mbid) IN
         IF ~IsAbsent(cachedUrl) THEN Fulfilled(d, cachedUrl)
         ELSE IF answer.st = "http404" THEN Fulfilled(d, Null)
         ELSE IF answer.st \in {"network", "malformed"}
         THEN Fulfilled(MusicCache_cacheCoverArt(d, mbid, "", now), Null)
         ELSE LET coverArtUrl == SelectCoverArt(answer.images)
              IN Fulfilled(MusicCache_cacheCoverArt(d, mbid,
                               IF IsAbsent(coverArtUrl) THEN "" ELSE coverArtUrl.url, now),
                           coverArtUrl)

Resolve(version, d, mbid, answer, storeUp, now) ==
    IF version = "current" THEN getCoverArtUrl(d, mbid, answer, storeUp, now)
    ELSE getCoverArtUrl_cached(d, mbid, answer, storeUp, now)

\* one call of getCoverArtUrl from call to return
CoverOp(name, version) ==
    /\ opCount < MaxCoverOps
    /\ batch.phase = "idle"
    /\ \E mbid \in ReleaseIds, answer \in CoverAnswers, storeUp \in BOOLEAN :
        LET out == Resolve(version, db, mbid, answer, storeUp, redisTime)
        IN /\ db' = out.d
           /\ lastOp' = [op |-> name,
                         arg |-> [mbid |-> mbid, answer |-> answer, storeUp |-> storeUp],
                         rec |-> out.value, at |-> redisTime, ok |-> out.status = "fulfilled"]
    /\ opCount' = opCount + 1
    /\ UNCHANGED <<redisTime, storeTicks, batch>>
    /\ UNCHANGED limVars

GetCoverArtUrl == CoverOp("MusicBrainzClient.getCoverArtUrl", "current")

\* what the download of an image can give: no connection, an error status, the
\* bytes with a content type, and a file that cannot be written
Downloads ==
    {[st |-> "network"], [st |-> "http404"], [st |-> "ok", contentType |-> "image/png"],
     [st |-> "ok", contentType |-> "image/jpeg"], [st |-> "ok", contentType |-> ""],
     [st |-> "writeFails", contentType |-> "image/png"]}
\* path.extname(new URL(url).pathname) on the URLs of the model
PathExtname(url) == ".jpg"
\* downloadAndSaveArtwork: the public path of the saved file, or null
downloadAndSaveArtwork(mbid, url, download) ==
    IF download.st # "ok" THEN Null
    ELSE [path |-> <<"/album-art/", mbid,
                     IF download.contentType = "image/png" THEN ".png"
                     ELSE IF download.contentType = "image/jpeg" THEN ".jpg"
                     ELSE PathExtname(url)>>]

\* one call of getCoverArtUrl, with what the image download would give
GetCoverArtUrlDownload ==
    /\ opCount < MaxCoverOps
    /\ batch.phase = "idle"
    /\ \E mbid \in ReleaseIds, answer \in CoverAnswers, download \in Downloads :
        LET out == getCoverArtUrl(db, mbid, answer, TRUE, redisTime)
        IN /\ db' = out.d
           /\ lastOp' = [op |-> "MusicBrainzClient.getCoverArtUrl",
                         arg |-> [mbid |-> mbid, answer |-> answer, storeUp |-> TRUE,
                                  download |-> download],
                         rec |-> out.value, at |-> redisTime, ok |-> out.status = "fulfilled"]
    /\ opCount' = opCount + 1
    /\ UNCHANGED <<redisTime, storeTicks, batch>>
    /\ UNCHANGED limVars
GetCoverArtUrlCached == CoverOp("MusicBrainzClient.getCoverArtUrl (cached)", "cached")

\* getCoverArtUrls(mbid): one promise per id is created
StartBatch ==
    /\ opCount < MaxCoverOps
    /\ batch.phase = "idle"
    /\ \E mbid \in BatchLists, version \in {"current", "cached"} :
        batch' = [phase |-> "running", mbid |-> mbid, version |-> version,
                  settled |-> [i \in DOMAIN mbid |-> [status |-> "pending"]],
                  order |-> <<>>]
    /\ UNCHANGED <<redisTime, storeTicks, db, opCount, lastOp>>
    /\ UNCHANGED limVars

\* one of the pending promises settles: async (id) => ({ id, url: await getCoverArtUrl(id) })
Settle ==
    /\ batch.phase = "running"
    /\ \E index \in DOMAIN batch.mbid, answer \in CoverAnswers, storeUp \in BOOLEAN :
        /\ batch.settled[index].status = "pending"
        /\ LET id == batch.mbid[index]
               out == Resolve(batch.version, db, id, answer, storeUp, redisTime)
           IN /\ db' = out.d
              /\ batch' = [batch EXCEPT
                     !.settled[index] = [status |-> out.status, id |-> id, url |-> out.value],
                     !.order = Append(@, index)]
    /\ UNCHANGED <<redisTime, storeTicks, opCount, lastOp>>
    /\ UNCHANGED limVars

\* a variant for comparison: as Promise.all, one rejection loses the whole batch
ProcessResults_failFast(mbid, coverArtResults, index, results) ==
    IF \E i \in DOMAIN mbid : coverArtResults[i].status = "rejected" THEN <<>>
    ELSE [id \in {mbid[i] : i \in DOMAIN mbid} |->
             coverArtResults[CHOOSE i \in DOMAIN mbid : mbid[i] = id].url]

\* coverArtResults.forEach((result, index) => ...), from index on
RECURSIVE ProcessResults(_, _, _, _)
ProcessResults(mbid, coverArtResults, index, results) ==
    IF index > Len(mbid) THEN results
    ELSE ProcessResults(mbid, coverArtResults, index + 1,
             IF coverArtResults[index].status = "fulfilled"
             THEN Put(results, coverArtResults[index].id, coverArtResults[index].url)
             ELSE Put(results, mbid[index], Null))

\* Promise.allSettled has resolved: the map is built and returned
FinishBatch ==
    /\ batch.phase = "running"
    /\ \A i \in DOMAIN batch.mbid : batch.settled[i].status # "pending"
    /\ lastOp' = [op |-> "MusicBrainzClient.getCoverArtUrls",
                  arg |-> [mbid |-> batch.mbid, settled |-> batch.settled,
                           order |-> batch.order, version |-> batch.version],
                  rec |-> ProcessResults(batch.mbid, batch.settled, 1, <<>>),
                  at |-> redisTime, ok |-> TRUE]
    /\ opCount' = opCount + 1
    /\ batch' = [phase |-> "idle"]
    /\ UNCHANGED <<redisTime, storeTicks, db>>
    /\ UNCHANGED limVars

CoverInit == LimIdle /\ StoreIdle
CoverNext ==
    \/ GetCoverArtUrl
    \/ GetCoverArtUrlCached
    \/ GetCoverArtUrlDownload
    \/ StartBatch
    \/ Settle
    \/ FinishBatch
SpecCover == CoverInit /\ [][CoverNext]_vars

----------------------------------------------------------------------------
(* Properties of the cover-art resolution *)

LastBatch == lastOp.op = "MusicBrainzClient.getCoverArtUrls"
\* index is the last place of its id in the list
LastOccurrence(mbid, index) == \A j \in DOMAIN mbid : j > index => mbid[j] # mbid[index]

(* C9: batch isolation. Whatever the order in which the per-id promises settle, the
   map getCoverArtUrls returns has an entry for every id of the list; the entry of an
   id is null when its resolution was rejected and is otherwise the value its own
   resolution produced (for an id listed more than once, its last resolution). *)
C9_BatchIsolation ==
    LastBatch =>
        /\ DOMAIN lastOp.rec = {lastOp.arg.mbid[i] : i \in DOMAIN lastOp.arg.mbid}
        /\ \A i \in DOMAIN lastOp.arg.mbid :
              LastOccurrence(lastOp.arg.mbid, i) =>
                  lastOp.rec[lastOp.arg.mbid[i]] =
                      IF lastOp.arg.settled[i].status = "rejected" THEN Null
                      ELSE lastOp.arg.settled[i].url

\* a batch of two ids settled in reverse order: the first was rejected and maps to
\* null, the second maps to the URL it resolved to
C9_Witness ==
    /\ LastBatch
    /\ lastOp.arg.mbid = <<"r1", "r2">>
    /\ lastOp.arg.order = <<2, 1>>
    /\ lastOp.arg.settled[1].status = "rejected"
    /\ lastOp.arg.settled[2].status = "fulfilled"
    /\ lastOp.rec["r1"] = Null
    /\ lastOp.rec["r2"] = [url |-> Thumb500Url]

\* the archive did not deliver an image list with an image in it
NoArtwork(answer) ==
    \/ answer.st \in {"network", "http404", "malformed"}
    \/ answer.st = "ok" /\ answer.images = <<>>

(* C10: getCoverArtUrl never throws, and it returns null whenever the image-metadata
   fetch fails, the response is not 2xx or cannot be parsed, or the image list is
   empty. *)
C10_NullOnFailure ==
    lastOp.op = "MusicBrainzClient.getCoverArtUrl" =>
        /\ lastOp.ok
        /\ NoArtwork(lastOp.arg.answer) => IsAbsent(lastOp.rec)

\* the first image flagged front, or the first listed image if none is flagged
ChosenImage(images) ==
    IF \E i \in DOMAIN images : images[i].front
    THEN images[CHOOSE i \in DOMAIN images :
                    images[i].front /\ \A j \in 1..(i - 1) : ~images[j].front]
    ELSE images[1]

(* C11: cover-art selection. When the image list is non-empty, getCoverArtUrl chooses
   the first image flagged front, or the first listed image if none is flagged, and
   returns the chosen image's '500' thumbnail when present and its full-size image
   URL otherwise. *)
C11_CoverArtSelection ==
    (/\ lastOp.op = "MusicBrainzClient.getCoverArtUrl"
     /\ lastOp.arg.answer.st = "ok"
     /\ lastOp.arg.answer.images # <<>>)
        => lastOp.rec =
              [url |-> IF ChosenImage(lastOp.arg.answer.images).thumb500 # Undefined
                       THEN ChosenImage(lastOp.arg.answer.images).thumb500
                       ELSE ChosenImage(lastOp.arg.answer.images).image]

\* the selection as the earlier getCoverArtUrl (with the cover-art cache) makes it on
\* a cache miss
C11_SelectionOnCacheMiss ==
    (/\ lastOp.op = "MusicBrainzClient.getCoverArtUrl (cached)"
     /\ lastOp.ok
     /\ lastOp.arg.answer.st = "ok"
     /\ lastOp.arg.answer.images # <<>>)
        => lastOp.rec =
              [url |-> IF ChosenImage(lastOp.arg.answer.images).thumb500 # Undefined
                       THEN ChosenImage(lastOp.arg.answer.images).thumb500
                       ELSE ChosenImage(lastOp.arg.answer.images).image]

----------------------------------------------------------------------------
(* The search routes: GET /api/music/search, /search/redis and /search/musicbrainz *)

MaxRouteOps == 2

RouteQueries == {"abba", "ABBA"}

\* the elements of an FT.SEARCH reply [total, id1, score1, fields1, ...]
FtTotal(n) == [t |-> "integer", n |-> n]
FtId(k) == [t |-> "string", key |-> k]
FtScore == [t |-> "string", key |-> <<"1">>]
FtFields == [t |-> "array"]

\* what FT.SEARCH album_idx ... WITHSCORES can answer: an error (no index, no search
\* module), no hit, or a hit among the hashes of the store
HashKeys(d) == {k \in DOMAIN d.data : d.data[k].type = "hash"}
FtReplies(d) ==
    {[st |-> "error"], [st |-> "ok", result |-> <<FtTotal(0)>>]}
    \cup {[st |-> "ok", result |-> <<FtTotal(1), FtId(k), FtScore, FtFields>>] :
            k \in HashKeys(d)}

\* id.startsWith("album:hash:")
StartsWithAlbumHash(key) == Len(key) >= 2 /\ key[1] = ALBUM_PREFIX /\ key[2] = "hash:"

\* GET album:<albumId> for a hit, albumId being the id without "album:hash:"
HitAlbumData(d, key) == RedisGet(d, <<ALBUM_PREFIX>> \o SubSeq(key, 3, Len(key)))

\* the loop of searchAlbums over the reply: for (i = 1; i < result.length; i += 2),
\* result[i] is taken for a document id and result[i + 1] is skipped as its score. An
\* id that is not a string, or a GET on a key that is not a string, throws.
ParseSearchReply(d, result) ==
    LET ids == [n \in 1..(Len(result) \div 2) |-> result[2 * n]]
        threw == \E n \in DOMAIN ids :
                    \/ ids[n].t # "string"
                    \/ /\ StartsWithAlbumHash(ids[n].key)
                       /\ HitAlbumData(d, ids[n].key).st = "wrongtype"
        found == SelectSeq(ids, LAMBDA id : /\ id.t = "string"
                                            /\ StartsWithAlbumHash(id.key)
                                            /\ HitAlbumData(d, id.key).st = "ok")
    IN IF threw THEN [threw |-> TRUE, albums |-> <<>>]
       ELSE [threw |-> FALSE,
             albums |-> [n \in DOMAIN found |-> JSONParse(HitAlbumData(d, found[n].key).val)]]

\* MusicStorage.searchAlbums: every error ends in the empty list
MusicStorage_searchAlbums(d, reply, storeUp) ==
    IF ~storeUp \/ reply.st = "error" THEN <<>>
    ELSE IF Len(reply.result) < 1 THEN <<>>
    ELSE ParseSearchReply(d, reply.result).albums

\* GET /api/music/search/redis: the full-text search, then the search-cache write
RedisSearchRoute(d, query, reply, storeUp, now) ==
    LET albums == MusicStorage_searchAlbums(d, reply, storeUp)
        searchResult == [albums |-> albums, artists |-> <<>>, total |-> Len(albums)]
    IN IF ~storeUp
       THEN [d |-> d, status |-> 500, results |-> Null, stages |-> <<"fulltext">>]
       ELSE [d |-> MusicStorage_cacheSearchResults(d, query, searchResult, now),
             status |-> 200, results |-> searchResult,
             stages |-> <<"fulltext", "cacheWrite">>]

\* GET /api/music/search/musicbrainz: MusicBrainzClient.search and nothing else; out
\* is what search() came to
MusicBrainzSearchRoute(resp, out) ==
    [lim |-> out.lim, d |-> out.d,
     status |-> IF out.ok THEN 200 ELSE IF ~resp.ok THEN 503 ELSE 500,
     results |-> out.result, stages |-> <<"upstream">>]

\* the redis route answered 2xx with an album or an artist
RedisFoundResults(redisResponse) ==
    /\ redisResponse.status = 200
    /\ Len(redisResponse.results.albums) > 0 \/ Len(redisResponse.results.artists) > 0

\* GET /api/music/search: the answer of the redis route if it found something, else
\* the answer of the musicbrainz route
UnifiedSearchRoute(lim, redisResponse, musicbrainzResponse) ==
    IF RedisFoundResults(redisResponse)
    THEN [lim |-> lim, d |-> redisResponse.d, status |-> 200,
          results |-> redisResponse.results, stages |-> redisResponse.stages,
          local |-> redisResponse]
    ELSE [lim |-> musicbrainzResponse.lim, d |-> musicbrainzResponse.d,
          status |-> musicbrainzResponse.status,
          results |-> musicbrainzResponse.results,
          stages |-> redisResponse.stages \o musicbrainzResponse.stages,
          local |-> redisResponse]

\* what the provider answers to the search and to the release lookup of group g1
RouteUpstream ==
    {[resp |-> [ok |-> FALSE], subs |-> [g1 |-> RequestFailed, g2 |-> RequestFailed]],
     [resp |-> [ok |-> TRUE, groups |-> <<>>, artists |-> <<>>, count |-> 0],
      subs |-> [g1 |-> RequestFailed, g2 |-> RequestFailed]],
     [resp |-> [ok |-> TRUE, groups |-> <<UpstreamGroup("g1", TRUE, "2020")>>,
                artists |-> <<>>, count |-> 1],
      subs |-> [g1 |-> RequestFailed, g2 |-> RequestFailed]],
     [resp |-> [ok |-> TRUE, groups |-> <<UpstreamGroup("g1", TRUE, "2020")>>,
                artists |-> <<>>, count |-> 1],
      subs |-> [g1 |-> ReleasesData(TRUE, <<UpstreamRelease("r1", "2020")>>),
                g2 |-> RequestFailed]]}

LimNow ==
    [clock |-> clock, lastRequestTime |-> lastRequestTime,
     requestTimes |-> requestTimes, dispatched |-> dispatched]

\* one request served by a route from its arrival to its response; the search-cache
\* entry of the query as it was when the request arrived is kept with it
RouteStep(name, arg, out) ==
    /\ opCount < MaxRouteOps
    /\ \A p \in Callers : pc[p] = "idle"
    /\ clock' = out.lim.clock
    /\ lastRequestTime' = out.lim.lastRequestTime
    /\ requestTimes' = out.lim.requestTimes
    /\ dispatched' = out.lim.dispatched
    /\ db' = out.d
    /\ lastOp' = [op |-> name, arg |-> arg,
                  before |-> MusicStorage_getCachedSearchResults(db, arg.query),
                  stages |-> out.stages, status |-> out.status, rec |-> out.results,
                  local |-> out.local, at |-> redisTime, ok |-> out.status = 200]
    /\ opCount' = opCount + 1
    /\ UNCHANGED <<pc, callNow, wakeAt, redisTime, storeTicks, batch>>

\* the unified route: it calls the redis route, and then the musicbrainz route on
\* the store the redis route left, unless the redis route found something
GetSearch ==
    \E query \in RouteQueries, reply \in FtReplies(db), up \in RouteUpstream,
       storeUp \in BOOLEAN :
        \E redisResponse \in {RedisSearchRoute(db, query, reply, storeUp, redisTime)} :
            \E out \in {IF RedisFoundResults(redisResponse) THEN Null
                        ELSE SearchOutcome(LimNow, redisResponse.d, up.resp, up.subs,
                                           storeUp)} :
                \E musicbrainzResponse \in
                       {IF IsAbsent(out) THEN Null ELSE MusicBrainzSearchRoute(up.resp, out)} :
                    RouteStep("GET /api/music/search",
                              [query |-> query, reply |-> reply, up |-> up,
                               storeUp |-> storeUp],
                              UnifiedSearchRoute(LimNow, redisResponse, musicbrainzResponse))

GetSearchRedis ==
    \E query \in RouteQueries, reply \in FtReplies(db), storeUp \in BOOLEAN :
        \E out \in {RedisSearchRoute(db, query, reply, storeUp, redisTime)} :
            RouteStep("GET /api/music/search/redis",
                      [query |-> query, reply |-> reply, storeUp |-> storeUp],
                      [lim |-> LimNow, d |-> out.d, status |-> out.status,
                       results |-> out.results, stages |-> out.stages, local |-> out])

GetSearchMusicBrainz ==
    \E query \in RouteQueries, up \in RouteUpstream, storeUp \in BOOLEAN :
        \E out \in {SearchOutcome(LimNow, db, up.resp, up.subs, storeUp)} :
            \E musicbrainzResponse \in {MusicBrainzSearchRoute(up.resp, out)} :
                RouteStep("GET /api/music/search/musicbrainz",
                          [query |-> query, up |-> up, storeUp |-> storeUp],
                          [lim |-> musicbrainzResponse.lim, d |-> musicbrainzResponse.d,
                           status |-> musicbrainzResponse.status,
                           results |-> musicbrainzResponse.results,
                           stages |-> musicbrainzResponse.stages, local |-> Null])

RouteInit == LimIdle /\ StoreIdle
RouteNext ==
    \/ GetSearch
    \/ GetSearchRedis
    \/ GetSearchMusicBrainz
    \/ StoreTick
SpecRoute == RouteInit /\ [][RouteNext]_vars

----------------------------------------------------------------------------
(* Properties of the search routes *)

Ran(stage) == \E i \in DOMAIN lastOp.stages : lastOp.stages[i] = stage
UnifiedSearchServed == lastOp.op = "GET /api/music/search"
\* the local stage found nothing, or failed
LocalStageEmpty ==
    \/ lastOp.local.status # 200
    \/ Len(lastOp.local.results.albums) = 0 /\ Len(lastOp.local.results.artists) = 0

(* C14: lookup order of an incoming search query. A live search-cache entry of the
   query is served as the result, without running the local full-text search and
   without calling upstream; the full-text search is run only on a cache miss; the
   upstream provider is called only when the local stage returned no albums and no
   artists or failed. *)
C14_LookupOrder ==
    UnifiedSearchServed =>
        /\ ~IsAbsent(lastOp.before) =>
              /\ ~Ran("fulltext")
              /\ ~Ran("upstream")
              /\ lastOp.rec = lastOp.before
        /\ Ran("fulltext") => IsAbsent(lastOp.before)
        /\ Ran("upstream") => LocalStageEmpty

\* the part of the order the unified route keeps: the full-text search runs first,
\* and upstream is called only when it found nothing or the redis route failed
C14_LocalBeforeUpstream ==
    UnifiedSearchServed =>
        /\ lastOp.stages[1] = "fulltext"
        /\ Ran("upstream") <=> LocalStageEmpty

(* C15: write-back of upstream search results. After an upstream search for query q
   has completed successfully (the store being up), its result is in the
   search-result cache: getCachedSearchResults(q) returns it until the search TTL has
   elapsed. *)
C15_UpstreamWriteBack ==
    (/\ lastOp.op \in {"GET /api/music/search", "GET /api/music/search/musicbrainz"}
     /\ Ran("upstream")
     /\ lastOp.ok
     /\ lastOp.arg.storeUp
     /\ redisTime < lastOp.at + STORAGE_SEARCH_TTL)
        => MusicStorage_getCachedSearchResults(db, lastOp.arg.query)
               = JSONParse(StringifySearchResult(lastOp.rec))

----------------------------------------------------------------------------
(* The album route: GET /api/music/album?id=...&mbid=... *)

MaxLookups == 2

\* the id and mbid parameters of a request; Undefined for a missing parameter
LookupParams ==
    {[id |-> i, mbid |-> m] : i \in {Undefined, "r1"}, m \in {Undefined, "r1"}}

\* what the provider can answer to the release lookup; the release group is part of
\* the answer only when the provider includes it
LookupAnswers ==
    {[st |-> "network"], [st |-> "http", status |-> 404],
     [st |-> "ok", body |-> UpstreamRecord("r1", FALSE)],
     [st |-> "ok", body |-> UpstreamRecord("r1", TRUE)],
     [st |-> "ok", body |-> [UpstreamRecord("r1", TRUE) EXCEPT !.releaseGroupId = Undefined]]}

\* a store command issued while the store is down rejects: the await throws
StoreError == [error |-> "store"]
Awaited(storeUp, value) == IF storeUp THEN value ELSE StoreError

\* the response of the route's catch block
InternalServerError(lim, d, stages) ==
    [lim |-> lim, d |-> d, status |-> 500, album |-> Null, cached |-> FALSE,
     stages |-> stages]

\* "If not in cache, fetch from MusicBrainz": getRelease, then cacheAlbum, then
\* cacheAlbumByMBID, then MusicStorage.cacheReleaseGroupReleases, which MusicStorage
\* does not have (a TypeError) when the album has a release group
AlbumRouteFetch(lim, d, mbid, answer, storeUp, stages) ==
    LET album == getRelease(answer)
        sent == makeRequest(lim, Status2xx(answer))
        d1 == MusicStorage_cacheAlbum(d, album)
        d2 == MusicStorage_cacheAlbumByMBID(d1, mbid, album)
    IN IF IsAbsent(album)
       THEN [lim |-> sent, d |-> d, status |-> 404, album |-> Null, cached |-> FALSE,
             stages |-> stages \o <<"upstream">>]
       ELSE IF ~storeUp
       THEN InternalServerError(sent, d, stages \o <<"upstream">>)
       ELSE IF ~MusicStorage_cacheAlbumOk(d, album)
       THEN InternalServerError(sent, d1, stages \o <<"upstream", "cacheAlbum">>)
       ELSE IF ~MusicStorage_cacheAlbumByMBIDOk(d1, mbid, album)
       THEN InternalServerError(sent, d2,
                stages \o <<"upstream", "cacheAlbum", "cacheAlbumByMBID">>)
       ELSE IF album.releaseGroupId # Undefined
       THEN InternalServerError(sent, d2,
                stages \o <<"upstream", "cacheAlbum", "cacheAlbumByMBID",
                            "cacheReleaseGroupReleases">>)
       ELSE [lim |-> sent, d |-> d2, status |-> 200, album |-> album, cached |-> FALSE,
             stages |-> stages \o <<"upstream", "cacheAlbum", "cacheAlbumByMBID">>]

\* the GET handler of the album route
AlbumRoute(lim, d, id, mbid, answer, storeUp) ==
    IF id = Undefined /\ mbid = Undefined
    THEN [lim |-> lim, d |-> d, status |-> 400, album |-> Null, cached |-> FALSE,
          stages |-> <<>>]
    ELSE LET album == Awaited(storeUp,
                          IF id # Undefined THEN MusicStorage_getCachedAlbum(d, id)
                          ELSE MusicStorage_getCachedAlbumByMBID(d, mbid))
         IN IF IsError(album) THEN InternalServerError(lim, d, <<"cacheRead">>)
            ELSE IF ~IsAbsent(album)
            THEN [lim |-> lim, d |-> d, status |-> 200, album |-> album, cached |-> TRUE,
                  stages |-> <<"cacheRead">>]
            ELSE IF mbid # Undefined
            THEN AlbumRouteFetch(lim, d, mbid, answer, storeUp, <<"cacheRead">>)
            ELSE [lim |-> lim, d |-> d, status |-> 404, album |-> Null, cached |-> FALSE,
                  stages |-> <<"cacheRead">>]

\* one request served by the album route, with what its cache read came to
GetAlbum ==
    /\ opCount < MaxLookups
    /\ \A p \in Callers : pc[p] = "idle"
    /\ \E params \in LookupParams, answer \in LookupAnswers, storeUp \in BOOLEAN :
        \E out \in {AlbumRoute(LimNow, db, params.id, params.mbid, answer, storeUp)} :
            /\ clock' = out.lim.clock
            /\ lastRequestTime' = out.lim.lastRequestTime
            /\ requestTimes' = out.lim.requestTimes
            /\ dispatched' = out.lim.dispatched
            /\ db' = out.d
            /\ lastOp' = [op |-> "GET /api/music/album",
                          arg |-> [id |-> params.id, mbid |-> params.mbid,
                                   answer |-> answer, storeUp |-> storeUp],
                          read |-> IF params.id # Undefined \/ params.mbid # Undefined THEN
                                       Awaited(storeUp,
                                           IF params.id # Undefined
                                           THEN MusicStorage_getCachedAlbum(db, params.id)
                                           ELSE MusicStorage_getCachedAlbumByMBID(db, params.mbid))
                                   ELSE Null,
                          stages |-> out.stages, status |-> out.status, rec |-> out.album,
                          cached |-> out.cached, at |-> redisTime, ok |-> out.status = 200]
    /\ opCount' = opCount + 1
    /\ UNCHANGED <<pc, callNow, wakeAt, redisTime, storeTicks, batch>>

\* the two awaited writes that populate the cache after a fetch, when the store
\* serves 'left' more commands and then rejects: SET album:<id> and HSET (cacheAlbum),
\* then SET album:mbid:<mbid> and HSET (cacheAlbumByMBID)
\* a wrong variant, for comparison: the entry under the external id is written first
PopulateAlbum_mbidFirst(d, mbid, album, left) ==
    LET text == JSONStringify(album, AlbumFields)
        d1 == RedisSet(d, AlbumMbidKey(mbid), text)
        d2 == MusicStorage_cacheAlbumByMBID(d, mbid, album)
        d3 == RedisSet(d2, AlbumKey(album.id), text)
        d4 == MusicStorage_cacheAlbum(d2, album)
    IN CASE left = 0 -> [d |-> d, threw |-> TRUE, stages |-> <<"cacheAlbumByMBID">>]
         [] left = 1 -> [d |-> d1, threw |-> TRUE, stages |-> <<"cacheAlbumByMBID">>]
         [] left = 2 -> [d |-> d2, threw |-> TRUE, stages |-> <<"cacheAlbumByMBID", "cacheAlbum">>]
         [] left = 3 -> [d |-> d3, threw |-> TRUE, stages |-> <<"cacheAlbumByMBID", "cacheAlbum">>]
         [] OTHER -> [d |-> d4, threw |-> FALSE, stages |-> <<"cacheAlbumByMBID", "cacheAlbum">>]
PopulateAlbum(d, mbid, album, left) ==
    LET text == JSONStringify(album, AlbumFields)
        d1 == RedisSet(d, AlbumKey(album.id), text)
        d2 == MusicStorage_cacheAlbum(d, album)
        d3 == RedisSet(d2, AlbumMbidKey(mbid), text)
        d4 == MusicStorage_cacheAlbumByMBID(d2, mbid, album)
    IN CASE left = 0 -> [d |-> d, threw |-> TRUE, stages |-> <<"cacheAlbum">>]
         [] left = 1 \/ ~MusicStorage_cacheAlbumOk(d, album) ->
                [d |-> d1, threw |-> TRUE, stages |-> <<"cacheAlbum">>]
         [] left = 2 -> [d |-> d2, threw |-> TRUE, stages |-> <<"cacheAlbum", "cacheAlbumByMBID">>]
         [] left = 3 \/ ~MusicStorage_cacheAlbumByMBIDOk(d2, mbid, album) ->
                [d |-> d3, threw |-> TRUE, stages |-> <<"cacheAlbum", "cacheAlbumByMBID">>]
         [] OTHER -> [d |-> d4, threw |-> FALSE, stages |-> <<"cacheAlbum", "cacheAlbumByMBID">>]

\* the album route when the store serves 'commands' commands (at least the cache
\* read) and rejects the ones after them
AlbumRouteStoreLost(lim, d, id, mbid, answer, commands) ==
    LET read == IF id # Undefined THEN MusicStorage_getCachedAlbum(d, id)
                ELSE MusicStorage_getCachedAlbumByMBID(d, mbid)
        album == getRelease(answer)
        sent == makeRequest(lim, Status2xx(answer))
        w == PopulateAlbum(d, mbid, album, commands - 1)
    IN IF ~IsAbsent(read)
       THEN [lim |-> lim, d |-> d, status |-> 200, album |-> read, cached |-> TRUE,
             stages |-> <<"cacheRead">>]
       ELSE IF mbid = Undefined \/ IsAbsent(album)
       THEN [lim |-> IF mbid = Undefined THEN lim ELSE sent, d |-> d, status |-> 404,
             album |-> Null, cached |-> FALSE,
             stages |-> IF mbid = Undefined THEN <<"cacheRead">> ELSE <<"cacheRead", "upstream">>]
       ELSE IF w.threw
       THEN InternalServerError(sent, w.d, <<"cacheRead", "upstream">> \o w.stages)
       ELSE IF album.releaseGroupId # Undefined
       THEN InternalServerError(sent, w.d,
                <<"cacheRead", "upstream">> \o w.stages \o <<"cacheReleaseGroupReleases">>)
       ELSE [lim |-> sent, d |-> w.d, status |-> 200, album |-> album, cached |-> FALSE,
             stages |-> <<"cacheRead", "upstream">> \o w.stages]

\* the entries of a record under its internal id and under the external id asked for
AlbumEntries(d, album, mbid) ==
    IF IsAbsent(album) THEN Null
    ELSE [internal |-> MusicStorage_getCachedAlbum(d, album.id),
          external |-> MusicStorage_getCachedAlbumByMBID(d, mbid)]
ArtistEntries(d, artist, mbid) ==
    IF IsAbsent(artist) THEN Null
    ELSE [internal |-> MusicStorage_getCachedArtist(d, artist.id),
          external |-> MusicStorage_getCachedArtistByMBID(d, mbid)]

\* requests that make the route fetch: an mbid, and possibly an id that is not cached
PopulatingParams == {[id |-> i, mbid |-> "r1"] : i \in {Undefined, "r2"}}
AlbumCommands == 1..5

\* one request served by the album route while the store is being lost
GetAlbumStoreLost ==
    /\ opCount < MaxLookups
    /\ \A p \in Callers : pc[p] = "idle"
    /\ \E params \in PopulatingParams, answer \in LookupAnswers, commands \in AlbumCommands :
        \E out \in {AlbumRouteStoreLost(LimNow, db, params.id, params.mbid, answer, commands)} :
            /\ clock' = out.lim.clock
            /\ lastRequestTime' = out.lim.lastRequestTime
            /\ requestTimes' = out.lim.requestTimes
            /\ dispatched' = out.lim.dispatched
            /\ db' = out.d
            /\ lastOp' = [op |-> "GET /api/music/album",
                          arg |-> [id |-> params.id, mbid |-> params.mbid,
                                   answer |-> answer, storeUp |-> TRUE,
                                   commands |-> commands, all |-> 5],
                          read |-> IF params.id # Undefined
                                   THEN MusicStorage_getCachedAlbum(db, params.id)
                                   ELSE MusicStorage_getCachedAlbumByMBID(db, params.mbid),
                          fetched |-> getRelease(answer),
                          before |-> AlbumEntries(db, getRelease(answer), params.mbid),
                          after |-> AlbumEntries(out.d, getRelease(answer), params.mbid),
                          stages |-> out.stages, status |-> out.status, rec |-> out.album,
                          cached |-> out.cached, at |-> redisTime, ok |-> out.status = 200]
    /\ opCount' = opCount + 1
    /\ UNCHANGED <<pc, callNow, wakeAt, redisTime, storeTicks, batch>>

\* the artist route: GET /api/music/artist?id=...&mbid=...
ArtistAnswers ==
    {[st |-> "network"], [st |-> "http", status |-> 404],
     [st |-> "ok", body |-> UpstreamRecord("r1", TRUE)],
     [st |-> "ok", body |-> [UpstreamRecord("r1", TRUE) EXCEPT !.country = "US"]]}
ArtistCommands == 0..3

\* cacheArtist, then cacheArtistByMBID, one SET each
\* a wrong variant, for comparison: only the entry under the internal id is written
PopulateArtist_internalOnly(d, mbid, artist, left) ==
    IF left = 0 THEN [d |-> d, threw |-> TRUE, stages |-> <<"cacheArtist">>]
    ELSE [d |-> MusicStorage_cacheArtist(d, artist), threw |-> FALSE, stages |-> <<"cacheArtist">>]
PopulateArtist(d, mbid, artist, left) ==
    LET d1 == MusicStorage_cacheArtist(d, artist)
        d2 == MusicStorage_cacheArtistByMBID(d1, mbid, artist)
    IN CASE left = 0 -> [d |-> d, threw |-> TRUE, stages |-> <<"cacheArtist">>]
         [] left = 1 -> [d |-> d1, threw |-> TRUE, stages |-> <<"cacheArtist", "cacheArtistByMBID">>]
         [] OTHER -> [d |-> d2, threw |-> FALSE, stages |-> <<"cacheArtist", "cacheArtistByMBID">>]

\* the GET handler of the artist route; an artist has no musicBrainzId property, so
\* the albums are never looked up and the response carries albums: null
ArtistRoute(lim, d, id, mbid, answer, commands) ==
    LET read == IF id # Undefined THEN MusicStorage_getCachedArtist(d, id)
                ELSE MusicStorage_getCachedArtistByMBID(d, mbid)
        artist == getArtist(answer)
        sent == makeRequest(lim, Status2xx(answer))
        w == PopulateArtist(d, mbid, artist, commands - 1)
    IN IF id = Undefined /\ mbid = Undefined
       THEN [lim |-> lim, d |-> d, status |-> 400, artist |-> Null, cached |-> FALSE,
             stages |-> <<>>]
       ELSE IF commands = 0
       THEN [lim |-> lim, d |-> d, status |-> 500, artist |-> Null, cached |-> FALSE,
             stages |-> <<"cacheRead">>]
       ELSE IF ~IsAbsent(read)
       THEN [lim |-> lim, d |-> d, status |-> 200, artist |-> read, cached |-> TRUE,
             stages |-> <<"cacheRead">>]
       ELSE IF mbid = Undefined
       THEN [lim |-> lim, d |-> d, status |-> 404, artist |-> Null, cached |-> FALSE,
             stages |-> <<"cacheRead">>]
       ELSE IF IsAbsent(artist)
       THEN [lim |-> sent, d |-> d, status |-> 404, artist |-> Null, cached |-> FALSE,
             stages |-> <<"cacheRead", "upstream">>]
       ELSE IF w.threw
       THEN [lim |-> sent, d |-> w.d, status |-> 500, artist |-> Null, cached |-> FALSE,
             stages |-> <<"cacheRead", "upstream">> \o w.stages]
       ELSE [lim |-> sent, d |-> w.d, status |-> 200, artist |-> artist, cached |-> FALSE,
             stages |-> <<"cacheRead", "upstream">> \o w.stages]

ArtistParams ==
    {[id |-> i, mbid |-> m] : i \in {Undefined, "r2"}, m \in {Undefined, "r1"}}

\* one request served by the artist route
GetArtistRoute ==
    /\ opCount < MaxLookups
    /\ \A p \in Callers : pc[p] = "idle"
    /\ \E params \in ArtistParams, answer \in ArtistAnswers, commands \in ArtistCommands :
        \E out \in {ArtistRoute(LimNow, db, params.id, params.mbid, answer, commands)} :
            /\ clock' = out.lim.clock
            /\ lastRequestTime' = out.lim.lastRequestTime
            /\ requestTimes' = out.lim.requestTimes
            /\ dispatched' = out.lim.dispatched
            /\ db' = out.d
            /\ lastOp' = [op |-> "GET /api/music/artist",
                          arg |-> [id |-> params.id, mbid |-> params.mbid,
                                   answer |-> answer, commands |-> commands, all |-> 3],
                          read |-> IF params.id # Undefined
                                   THEN MusicStorage_getCachedArtist(db, params.id)
                                   ELSE IF params.mbid # Undefined
                                   THEN MusicStorage_getCachedArtistByMBID(db, params.mbid)
                                   ELSE Null,
                          fetched |-> getArtist(answer),
                          before |-> ArtistEntries(db, getArtist(answer), params.mbid),
                          after |-> ArtistEntries(out.d, getArtist(answer), params.mbid),
                          stages |-> out.stages, status |-> out.status, rec |-> out.artist,
                          cached |-> out.cached, at |-> redisTime, ok |-> out.status = 200]
    /\ opCount' = opCount + 1
    /\ UNCHANGED <<pc, callNow, wakeAt, redisTime, storeTicks, batch>>

LookupInit == LimIdle /\ StoreIdle
LookupNext == GetAlbum \/ GetAlbumStoreLost \/ GetArtistRoute
SpecLookup == LookupInit /\ [][LookupNext]_vars

----------------------------------------------------------------------------
(* Properties of the album route *)

AlbumRouteServed ==
    /\ lastOp.op = "GET /api/music/album"
    /\ lastOp.arg.id # Undefined \/ lastOp.arg.mbid # Undefined

(* C16: store reads fail open. When the key-value store fails during the cache read
   of a lookup, the read reports a cache miss (absent) instead of an error, and the
   lookup falls through to the upstream provider. *)
C16_ReadsFailOpen ==
    (AlbumRouteServed /\ ~lastOp.arg.storeUp) =>
        /\ IsAbsent(lastOp.read)
        /\ lastOp.arg.mbid # Undefined => Ran("upstream")

\* what the route does instead: the failed read ends the request with status 500 and
\* upstream is not called
C16_ReadsFailLoud ==
    (AlbumRouteServed /\ ~lastOp.arg.storeUp) =>
        /\ IsError(lastOp.read)
        /\ lastOp.status = 500
        /\ ~Ran("upstream")

----------------------------------------------------------------------------
(* ListeningEntries: the validators *)

\* a text is the sequence of its parts between the "-" characters, a part being a
\* sequence of characters: "2025-01-15" is << <<"2","0","2","5">>, <<"0","1">>, <<"1","5">> >>
Digits == {"0", "1", "2", "3", "4", "5", "6", "7", "8", "9"}
DigitValue(c) ==
    CASE c = "0" -> 0 [] c = "1" -> 1 [] c = "2" -> 2 [] c = "3" -> 3 [] c = "4" -> 4
      [] c = "5" -> 5 [] c = "6" -> 6 [] c = "7" -> 7 [] c = "8" -> 8 [] c = "9" -> 9
DigitChar(n) ==
    CASE n = 0 -> "0" [] n = 1 -> "1" [] n = 2 -> "2" [] n = 3 -> "3" [] n = 4 -> "4"
      [] n = 5 -> "5" [] n = 6 -> "6" [] n = 7 -> "7" [] n = 8 -> "8" [] n = 9 -> "9"
Pow10(k) == CASE k = 0 -> 1 [] k = 1 -> 10 [] k = 2 -> 100 [] k = 3 -> 1000

\* the number a run of two or four digits denotes
NumberOf(part) ==
    IF Len(part) = 2 THEN 10 * DigitValue(part[1]) + DigitValue(part[2])
    ELSE 1000 * DigitValue(part[1]) + 100 * DigitValue(part[2])
         + 10 * DigitValue(part[3]) + DigitValue(part[4])
\* a number written with that many digits, zero-padded
PadStart(n, width) == [i \in 1..width |-> DigitChar((n \div Pow10(width - i)) % 10)]

\* /^\d{4}-\d{2}-\d{2}$/.test(date)
DateRegexTest(date) ==
    /\ Len(date) = 3
    /\ Len(date[1]) = 4 /\ Len(date[2]) = 2 /\ Len(date[3]) = 2
    /\ \A p \in 1..3 : \A i \in DOMAIN date[p] : date[p][i] \in Digits

\* the calendar, in days since 0000-01-01
IsLeapYear(y) == (y % 4 = 0 /\ y % 100 # 0) \/ y % 400 = 0
DaysInMonth(y, m) ==
    CASE m \in {1, 3, 5, 7, 8, 10, 12} -> 31
      [] m \in {4, 6, 9, 11} -> 30
      [] m = 2 -> IF IsLeapYear(y) THEN 29 ELSE 28
LeapYearsBefore(y) ==
    IF y = 0 THEN 0 ELSE (y - 1) \div 4 - (y - 1) \div 100 + (y - 1) \div 400 + 1
DaysBeforeMonth(y, m) ==
    CASE m = 1 -> 0 [] m = 2 -> 31
      [] OTHER -> 59 + (IF IsLeapYear(y) THEN 1 ELSE 0)
                  + (CASE m = 3 -> 0 [] m = 4 -> 31 [] m = 5 -> 61 [] m = 6 -> 92
                       [] m = 7 -> 122 [] m = 8 -> 153 [] m = 9 -> 184 [] m = 10 -> 214
                       [] m = 11 -> 245 [] m = 12 -> 275)
DayFromYear(y) == 365 * y + LeapYearsBefore(y)
MakeDay(y, m, d) == DayFromYear(y) + DaysBeforeMonth(y, m) + (d - 1)
YearFromDay(t) ==
    CHOOSE y \in (t \div 366)..(t \div 366 + 30) : DayFromYear(y) <= t /\ t < DayFromYear(y + 1)
MonthFromDay(t) ==
    LET y == YearFromDay(t)
    IN CHOOSE m \in 1..12 :
          /\ MakeDay(y, m, 1) <= t
          /\ t < MakeDay(y, m, 1) + DaysInMonth(y, m)
DateFromDay(t) == t - MakeDay(YearFromDay(t), MonthFromDay(t), 1) + 1

\* new Date("YYYY-MM-DD"): the time value in days (the text denotes UTC midnight),
\* or an invalid date. A month outside 01..12 or a day outside 01..31 is invalid;
\* for a day of 29..31 that the month does not have, engines differ: a strict one
\* gives an invalid date, a lenient one runs over into the next month
DateParse(date, engine) ==
    LET y == NumberOf(date[1])
        m == NumberOf(date[2])
        d == NumberOf(date[3])
    IN IF m < 1 \/ m > 12 \/ d < 1 \/ d > 31 THEN [valid |-> FALSE]
       ELSE IF d > DaysInMonth(y, m) /\ engine = "strict" THEN [valid |-> FALSE]
       ELSE [valid |-> TRUE, day |-> MakeDay(y, m, d)]

\* parsedDate.toISOString().split('T')[0]
ToISODate(t) ==
    <<PadStart(YearFromDay(t), 4), PadStart(MonthFromDay(t), 2), PadStart(DateFromDay(t), 2)>>

\* a wrong validator, for comparison: it does not compare the date with its text
validateDate_parsedOnly(date, engine) ==
    DateRegexTest(date) /\ DateParse(date, engine).valid

\* ListeningEntries.validateDate
validateDate(date, engine) ==
    IF ~DateRegexTest(date) THEN FALSE
    ELSE LET parsedDate == DateParse(date, engine)
         IN parsedDate.valid /\ date = ToISODate(parsedDate.day)

MaxValidations == 1

YearTexts ==
    {<<"2", "0", "2", "5">>, <<"2", "0", "2", "4">>, <<"2", "0", "2", "3">>,
     <<"1", "9", "0", "0">>, <<"2", "0", "0", "0">>, <<"0", "0", "0", "0">>, <<"2", "5">>}
MonthTexts == {<<"0", "1">>, <<"0", "2">>, <<"0", "4">>, <<"1", "2">>, <<"1", "3">>,
               <<"0", "0">>, <<"1">>}
DayTexts == {<<"1", "5">>, <<"2", "8">>, <<"2", "9">>, <<"3", "0">>, <<"3", "1">>,
             <<"3", "2">>, <<"0", "0">>, <<"1">>}
DateTexts ==
    {<<y, m, d>> : y \in YearTexts, m \in MonthTexts, d \in DayTexts}
    \cup {<<<<"i", "n", "v", "a", "l", "i", "d">>, <<"d", "a", "t", "e">>>>,
          <<<<"2", "0", "2", "5">>, <<"0", "1">>>>,
          <<<<"2", "0", "2", "5">>, <<"0", "1">>, <<"1", "x">>>>,
          <<<<"2", "0", "2", "5">>, <<"0", "1">>, <<"1", "5">>, <<>>>>}
Engines == {"strict", "lenient"}

\* one call of validateDate
ValidateDate ==
    /\ opCount < MaxValidations
    /\ \E date \in DateTexts, engine \in Engines :
        lastOp' = [op |-> "ListeningEntries.validateDate",
                   arg |-> [date |-> date, engine |-> engine],
                   rec |-> validateDate(date, engine), at |-> redisTime, ok |-> TRUE]
    /\ opCount' = opCount + 1
    /\ UNCHANGED <<redisTime, storeTicks, db, batch>>
    /\ UNCHANGED limVars

ValidateInit == LimIdle /\ StoreIdle
ValidateNext == ValidateDate
SpecValidate == ValidateInit /\ [][ValidateNext]_vars

----------------------------------------------------------------------------
(* Properties of the validators *)

DateValidated == lastOp.op = "ListeningEntries.validateDate"
DateText(y, m, d) == <<y, m, d>>

\* the text has the form YYYY-MM-DD: four, two and two digits
HasDateForm(date) ==
    /\ Len(date) = 3
    /\ Len(date[1]) = 4 /\ Len(date[2]) = 2 /\ Len(date[3]) = 2
    /\ \A p \in 1..3 : \A i \in DOMAIN date[p] : date[p][i] \in Digits
\* a text of that form denotes a date the calendar has
IsCalendarDate(date) ==
    /\ NumberOf(date[2]) \in 1..12
    /\ NumberOf(date[3]) >= 1
    /\ NumberOf(date[3]) <= DaysInMonth(NumberOf(date[1]), NumberOf(date[2]))

(* C18: validateDate(s) is true exactly when s has the form YYYY-MM-DD, with four,
   two and two digits, and denotes an existing calendar date; it accepts 2025-01-15,
   2024-12-31 and 2023-02-28 and rejects 2025-1-15, 25-01-15, 2025-01-32 and text that
   is no date. *)
C18_ValidateDate ==
    DateValidated =>
        /\ lastOp.rec <=> (HasDateForm(lastOp.arg.date) /\ IsCalendarDate(lastOp.arg.date))
        /\ lastOp.arg.date \in
              {DateText(<<"2", "0", "2", "5">>, <<"0", "1">>, <<"1", "5">>),
               DateText(<<"2", "0", "2", "4">>, <<"1", "2">>, <<"3", "1">>),
               DateText(<<"2", "0", "2", "3">>, <<"0", "2">>, <<"2", "8">>)} => lastOp.rec
        /\ lastOp.arg.date \in
              {DateText(<<"2", "0", "2", "5">>, <<"1">>, <<"1", "5">>),
               DateText(<<"2", "5">>, <<"0", "1">>, <<"1", "5">>),
               DateText(<<"2", "0", "2", "5">>, <<"0", "1">>, <<"3", "2">>),
               <<<<"i", "n", "v", "a", "l", "i", "d">>, <<"d", "a", "t", "e">>>>}
              => ~lastOp.rec

\* 2023-02-29 has the form of a date and is none: an engine that reads it as
\* 2023-03-01 is answered with false
C18_Witness ==
    /\ DateValidated
    /\ lastOp.arg.date = DateText(<<"2", "0", "2", "3">>, <<"0", "2">>, <<"2", "9">>)
    /\ lastOp.arg.engine = "lenient"
    /\ DateParse(lastOp.arg.date, "lenient").valid
    /\ ToISODate(DateParse(lastOp.arg.date, "lenient").day)
           = DateText(<<"2", "0", "2", "3">>, <<"0", "3">>, <<"0", "1">>)
    /\ ~lastOp.rec

----------------------------------------------------------------------------
(* ListeningEntries: the entries of a user, one hash per (username, date) *)

\* numbers as JavaScript has them: finite ones in tenths, NaN and Infinity; a
\* string is what a JSON body can carry in place of a number
Num(tenths) == [kind |-> "finite", tenths |-> tenths]
NaN == [kind |-> "NaN"]
Infinity == [kind |-> "Infinity"]
NumericString(tenths) == [kind |-> "string", tenths |-> tenths]

\* the operand of a comparison is converted to a number
ToNumber(x) == IF x.kind = "string" THEN Num(x.tenths) ELSE x
\* x >= n and x <= n for an integer n; every comparison with NaN is false
NumGeq(x, n) ==
    \/ ToNumber(x).kind = "finite" /\ ToNumber(x).tenths >= 10 * n
    \/ ToNumber(x).kind = "Infinity"
NumLeq(x, n) == ToNumber(x).kind = "finite" /\ ToNumber(x).tenths <= 10 * n
\* Number.isFinite does not convert its argument
NumberIsFinite(x) == x.kind = "finite"

\* ListeningEntries.validateRating
validateRating(rating) == NumGeq(rating, -1) /\ NumLeq(rating, 11) /\ NumberIsFinite(rating)

\* rating.toString() and parseFloat
NumberToString(x) ==
    IF x.kind = "finite"
    THEN [chars |-> "decimal", neg |-> x.tenths < 0,
          whole |-> (IF x.tenths < 0 THEN -x.tenths ELSE x.tenths) \div 10,
          frac |-> (IF x.tenths < 0 THEN -x.tenths ELSE x.tenths) % 10]
    ELSE [chars |-> x.kind]
ParseFloat(s) ==
    IF s.chars = "decimal"
    THEN Num((IF s.neg THEN -1 ELSE 1) * (10 * s.whole + s.frac))
    ELSE [kind |-> s.chars]

LISTENING_PREFIX == "listening:"
ListeningKey(username, date) == <<LISTENING_PREFIX, username, ":", date>>

\* HGETALL key: the fields of the hash, none for a missing key
RedisHGetAll(d, k) == IF k \in DOMAIN d.data THEN d.data[k].val ELSE <<>>

\* ListeningEntries.getListeningEntry
getListeningEntry(d, username, date) ==
    LET entryData == RedisHGetAll(d, ListeningKey(username, date))
    IN IF DOMAIN entryData = {} THEN Null
       ELSE [username |-> entryData.username,
             date |-> entryData.date,
             album_mbid |-> entryData.album_mbid,
             rating |-> ParseFloat(entryData.rating),
             favorite_track |-> entryData.favorite_track,
             notes |-> entryData.notes,
             created_at |-> entryData.created_at,
             updated_at |-> entryData.updated_at]

\* the entry addOrUpdateListeningEntry builds and returns
ListeningEntry(d, username, date, album_mbid, rating, favorite_track, notes, now) ==
    LET existingEntry == getListeningEntry(d, username, date)
    IN [username |-> username, date |-> date, album_mbid |-> album_mbid,
        rating |-> rating, favorite_track |-> favorite_track, notes |-> notes,
        created_at |-> IF IsAbsent(existingEntry) THEN now ELSE existingEntry.created_at,
        updated_at |-> now]

\* a wrong variant, for comparison: every call stamps created_at anew
addOrUpdateListeningEntry_restamp(d, username, date, album_mbid, rating, favorite_track, notes, now) ==
    RedisHSet(d, ListeningKey(username, date),
              [username |-> username, date |-> date, album_mbid |-> album_mbid,
               rating |-> NumberToString(rating), favorite_track |-> favorite_track,
               notes |-> notes, created_at |-> now, updated_at |-> now])

\* ListeningEntries.addOrUpdateListeningEntry: the store after client.hset(key, hashData)
addOrUpdateListeningEntry(d, username, date, album_mbid, rating, favorite_track, notes, now) ==
    LET entry == ListeningEntry(d, username, date, album_mbid, rating, favorite_track,
                                notes, now)
    IN RedisHSet(d, ListeningKey(username, date),
                 [username |-> entry.username, date |-> entry.date,
                  album_mbid |-> entry.album_mbid,
                  rating |-> NumberToString(entry.rating),
                  favorite_track |-> entry.favorite_track, notes |-> entry.notes,
                  created_at |-> entry.created_at, updated_at |-> entry.updated_at])

\* ListeningEntries.deleteListeningEntry
deleteListeningEntry(d, username, date) == RedisDel(d, ListeningKey(username, date))

\* ListeningEntries.getAllUserEntries, as the set of the entries
getAllUserEntries(d, username) ==
    {getListeningEntry(d, k[2], k[4]) :
        k \in {k \in DOMAIN d.data : Len(k) = 4 /\ k[1] = LISTENING_PREFIX /\ k[2] = username}}

\* ListeningEntries.isDateInFuture, for a server whose local time is UTC:
\* `today` is the day number of the server's current date
isDateInFuture(date, today) == DateParse(date, "strict").day > today

MaxListenOps == 2

ListenUsers == {"alice", "bob"}
Jan14 == DateText(<<"2", "0", "2", "5">>, <<"0", "1">>, <<"1", "4">>)
Jan15 == DateText(<<"2", "0", "2", "5">>, <<"0", "1">>, <<"1", "5">>)
Jan16 == DateText(<<"2", "0", "2", "5">>, <<"0", "1">>, <<"1", "6">>)
Jan32 == DateText(<<"2", "0", "2", "5">>, <<"0", "1">>, <<"3", "2">>)
ListenDates == {Jan14, Jan15}
\* album, rating, favorite track and notes of a call
ListenContents ==
    {[album_mbid |-> "r1", rating |-> Num(50), favorite_track |-> "", notes |-> ""],
     [album_mbid |-> "r2", rating |-> Num(75), favorite_track |-> "Waterloo",
      notes |-> "again"]}
Todays == {MakeDay(2025, 1, 15)}

\* what a request body can carry as its rating
NoRating == [kind |-> "undefined"]
PostRatings == {NoRating, Num(-10), Num(75), Num(110), Num(120), Infinity, NumericString(50)}
\* the arguments of the validator's tests and their neighbours
RatingValues ==
    {Num(-20), Num(-11), Num(-10), Num(-5), Num(-1), Num(0), Num(50), Num(75), Num(100),
     Num(101), Num(105), Num(110), Num(111), Num(120), NaN, Infinity, NumericString(50)}
\* request bodies: every rating with a good date and album, and a missing date,
\* a future date, a date the calendar lacks and a missing album
PostBodies ==
    {[date |-> Jan15, album_mbid |-> "r1", rating |-> r] : r \in PostRatings}
    \cup {[date |-> dt, album_mbid |-> "r1", rating |-> Num(75)] : dt \in {<<>>, Jan16, Jan32}}
    \cup {[date |-> Jan15, album_mbid |-> "", rating |-> Num(75)]}
AuthOutcomes ==
    {[error |-> "Authentication required", statusCode |-> 401],
     [user |-> [username |-> "alice"]]}

ListenStep(name, arg, rec, before, newdb, extra) ==
    /\ opCount < MaxListenOps
    /\ db' = newdb
    /\ opCount' = opCount + 1
    /\ lastOp' = [op |-> name, arg |-> arg, rec |-> rec, before |-> before, at |-> clock,
                  ok |-> TRUE, status |-> extra.status, checked |-> extra.checked,
                  valid |-> extra.valid]
    /\ clock' = clock + 1
    /\ UNCHANGED <<redisTime, storeTicks, batch>>
    /\ UNCHANGED <<lastRequestTime, requestTimes, pc, callNow, wakeAt, dispatched>>

LibraryCall == [status |-> 0, checked |-> FALSE, valid |-> FALSE]

\* one call of ListeningEntries.addOrUpdateListeningEntry; `now` is the clock,
\* which every call reads a millisecond after the call before it
AddOrUpdateListeningEntry ==
    \E username \in ListenUsers, date \in ListenDates, c \in ListenContents :
        ListenStep("ListeningEntries.addOrUpdateListeningEntry",
                   [username |-> username, date |-> date, album_mbid |-> c.album_mbid,
                    rating |-> c.rating, favorite_track |-> c.favorite_track,
                    notes |-> c.notes],
                   ListeningEntry(db, username, date, c.album_mbid, c.rating,
                                  c.favorite_track, c.notes, clock),
                   getListeningEntry(db, username, date),
                   addOrUpdateListeningEntry(db, username, date, c.album_mbid, c.rating,
                                             c.favorite_track, c.notes, clock),
                   LibraryCall)

\* one call of ListeningEntries.deleteListeningEntry
DeleteListeningEntry ==
    \E username \in ListenUsers, date \in ListenDates :
        ListenStep("ListeningEntries.deleteListeningEntry",
                   [username |-> username, date |-> date],
                   [deleted |-> ListeningKey(username, date) \in DOMAIN db.data],
                   getListeningEntry(db, username, date),
                   deleteListeningEntry(db, username, date),
                   LibraryCall)

\* the response of POST /api/listening and the store it leaves
PostListeningRoute(d, auth, body, today, engine, now) ==
    IF "error" \in DOMAIN auth
    THEN [d |-> d, status |-> auth.statusCode, entry |-> Null, checked |-> FALSE,
          valid |-> FALSE]
    ELSE IF body.date = <<>> \/ body.album_mbid = ""
    THEN [d |-> d, status |-> 400, entry |-> Null, checked |-> FALSE, valid |-> FALSE]
    ELSE IF ~validateDate(body.date, engine)
    THEN [d |-> d, status |-> 400, entry |-> Null, checked |-> FALSE, valid |-> FALSE]
    ELSE IF isDateInFuture(body.date, today)
    THEN [d |-> d, status |-> 400, entry |-> Null, checked |-> FALSE, valid |-> FALSE]
    ELSE IF body.rating # NoRating /\ ~validateRating(body.rating)
    THEN [d |-> d, status |-> 400, entry |-> Null, checked |-> TRUE, valid |-> FALSE]
    ELSE LET finalRating == IF body.rating # NoRating THEN body.rating ELSE Num(0)
         IN [d |-> addOrUpdateListeningEntry(d, auth.user.username, body.date,
                                             body.album_mbid, finalRating, "", "", now),
             status |-> 200,
             entry |-> ListeningEntry(d, auth.user.username, body.date, body.album_mbid,
                                      finalRating, "", "", now),
             checked |-> body.rating # NoRating,
             valid |-> body.rating # NoRating]

\* POST /api/listening
PostListening ==
    \E auth \in AuthOutcomes, body \in PostBodies, today \in Todays, engine \in Engines :
        \E out \in {PostListeningRoute(db, auth, body, today, engine, clock)} :
            ListenStep("POST /api/listening",
                       [auth |-> auth, date |-> body.date, album_mbid |-> body.album_mbid,
                        rating |-> body.rating, today |-> today],
                       out.entry,
                       IF "error" \in DOMAIN auth \/ body.date = <<>> THEN Null
                       ELSE getListeningEntry(db, auth.user.username, body.date),
                       out.d,
                       [status |-> out.status, checked |-> out.checked, valid |-> out.valid])

\* the response of DELETE /api/listening/[username]?date= and the store it leaves
DeleteListeningRoute(d, username, date, cookie, engine) ==
    IF date = <<>> THEN [d |-> d, status |-> 400]
    ELSE IF cookie = Undefined THEN [d |-> d, status |-> 401]
    ELSE IF ~validateDate(date, engine) THEN [d |-> d, status |-> 400]
    ELSE IF IsAbsent(getListeningEntry(d, username, date)) THEN [d |-> d, status |-> 404]
    ELSE [d |-> deleteListeningEntry(d, username, date), status |-> 200]

\* the session_id cookie of a request: none, or an id
ListenCookies == {Undefined, "s1"}
DeleteDates == {<<>>, Jan14, Jan15, Jan32}

\* DELETE /api/listening/[username]
DeleteListening ==
    \E username \in ListenUsers, date \in DeleteDates, cookie \in ListenCookies,
       engine \in Engines :
        \E out \in {DeleteListeningRoute(db, username, date, cookie, engine)} :
            ListenStep("DELETE /api/listening/[username]",
                       [username |-> username, date |-> date, cookie |-> cookie],
                       Null, getListeningEntry(db, username, date), out.d,
                       [status |-> out.status, checked |-> FALSE, valid |-> FALSE])

ListenInit == LimIdle /\ StoreIdle
ListenNext ==
    \/ AddOrUpdateListeningEntry
    \/ DeleteListeningEntry
    \/ PostListening
    \/ DeleteListening
SpecListening == ListenInit /\ [][ListenNext]_vars

\* the range the specification gives for a rating
RatingInRange(r) == r.kind = "finite" /\ r.tenths >= 0 /\ r.tenths <= 100
\* the range validateRating accepts
RatingAccepted(r) == r.kind = "finite" /\ r.tenths >= -10 /\ r.tenths <= 110

PostServed == lastOp.op = "POST /api/listening"
StoredRatings(d) ==
    {getListeningEntry(d, k[2], k[4]).rating :
        k \in {k \in DOMAIN d.data : Len(k) = 4 /\ k[1] = LISTENING_PREFIX}}

\* C17: validateRating(r) is true exactly when r is a finite number with
\* 0 <= r <= 10, so the listening POST route, which checks every rating a
\* request carries with it, never stores a rating outside [0, 10]
C17_ValidateRating ==
    /\ PostServed /\ lastOp.checked =>
          (validateRating(lastOp.arg.rating) <=> RatingInRange(lastOp.arg.rating))
    /\ \A r \in StoredRatings(db) : RatingInRange(r)

\* what the code does hold: the validator accepts exactly the finite numbers of
\* [-1, 11], and nothing else is stored
C17_AcceptedRange ==
    /\ \A r \in RatingValues : validateRating(r) <=> RatingAccepted(r)
    /\ \A r \in StoredRatings(db) : RatingAccepted(r)

AddOrUpdateDone == lastOp.op = "ListeningEntries.addOrUpdateListeningEntry"

\* C19: one entry per (username, date). After addOrUpdateListeningEntry the
\* stored entry has the created_at of the entry that was there before the call
\* (the time of the call when there was none, so the first call's time until a
\* delete), the album, rating, favorite track and notes of this call and this
\* call's time as updated_at; getListeningEntry returns exactly that entry, the
\* call returns it too, and no user has two entries of one date
C19_OneEntryPerDay ==
    /\ AddOrUpdateDone =>
          LET a == lastOp.arg
              stored == getListeningEntry(db, a.username, a.date)
          IN /\ ~IsAbsent(stored)
             /\ stored = [username |-> a.username, date |-> a.date,
                          album_mbid |-> a.album_mbid, rating |-> a.rating,
                          favorite_track |-> a.favorite_track, notes |-> a.notes,
                          created_at |-> IF IsAbsent(lastOp.before) THEN lastOp.at
                                         ELSE lastOp.before.created_at,
                          updated_at |-> lastOp.at]
             /\ lastOp.rec = stored
    /\ \A u \in ListenUsers :
          \A e1 \in getAllUserEntries(db, u), e2 \in getAllUserEntries(db, u) :
              e1.date = e2.date => e1 = e2
    /\ \A u \in ListenUsers : \A e \in getAllUserEntries(db, u) :
          /\ e.username = u
          /\ e.created_at <= e.updated_at

\* a second call on the same (username, date) at a later time, with another
\* album, rating and favorite track
C19_Witness ==
    /\ AddOrUpdateDone
    /\ ~IsAbsent(lastOp.before)
    /\ lastOp.before.created_at < lastOp.at
    /\ lastOp.before.album_mbid # lastOp.arg.album_mbid
    /\ lastOp.before.rating # lastOp.arg.rating
    /\ lastOp.before.favorite_track # lastOp.arg.favorite_track
    /\ getListeningEntry(db, lastOp.arg.username, lastOp.arg.date).created_at
           = lastOp.before.created_at
    /\ getListeningEntry(db, lastOp.arg.username, lastOp.arg.date).updated_at = lastOp.at

----------------------------------------------------------------------------
(* AuthUtils: users and the username index *)

USER_PREFIX == "user:"
USERNAME_INDEX == "usernames"
UserKey(userId) == <<USER_PREFIX, userId>>
IndexKey == <<USERNAME_INDEX>>
UserOrder == <<"id", "username", "name", "passwordHash", "createdAt">>

\* Bun.password.hash: not the password itself
HashPassword(password) ==
    CASE password = "secret1" -> "$argon2id$hash-of-secret1"
      [] password = "secret2" -> "$argon2id$hash-of-secret2"
\* new Date(t).toISOString(): the text of a time, to the millisecond, and
\* new Date(text).getTime(): the time of a text
ToISOString(t) == [iso |-> t]
DateOfISO(text) == text.iso
\* JSON.stringify of an object whose properties are all defined
JSONStringifyRecord(obj, order) ==
    [json |-> "object", props |-> [i \in 1..Len(order) |-> <<order[i], obj[order[i]]>>]]

\* HGET key field
RedisHGet(d, k, field) ==
    IF k \in DOMAIN d.data /\ field \in DOMAIN d.data[k].val
    THEN [st |-> "ok", val |-> d.data[k].val[field]]
    ELSE [st |-> "nil"]

\* AuthUtils.getUserById
getUserById(d, userId) ==
    LET userData == RedisGet(d, UserKey(userId))
    IN IF userData.st = "ok" THEN JSONParse(userData.val) ELSE Null

\* AuthUtils.getUserByUsername
getUserByUsername(d, username) ==
    LET userId == RedisHGet(d, IndexKey, username)
    IN IF userId.st = "nil" THEN Null ELSE getUserById(d, userId.val)

\* every user record of the store
StoredUsers(d) == {JSONParse(d.data[k].val) : k \in RedisKeys(d, USER_PREFIX)}

MaxCreateUsers == 2
AuthCallers == {"a1", "a2"}
AuthUsernames == {"alice", "bob"}
AuthPasswords == {"secret1", "secret2"}
\* crypto.randomUUID(): an identifier no user has yet
UserIdPool == <<"u1", "u2", "u3", "u4">>
UsedUserIds(d, calls) ==
    {k[2] : k \in RedisKeys(d, USER_PREFIX)}
RandomUUID(d, calls) ==
    UserIdPool[CHOOSE i \in DOMAIN UserIdPool :
                   /\ UserIdPool[i] \notin UsedUserIds(d, calls)
                   /\ \A j \in 1..(i - 1) : UserIdPool[j] \in UsedUserIds(d, calls)]

IdleCall == [pc |-> "idle", username |-> "", password |-> "", taken |-> FALSE, user |-> Null]
\* the createUser calls in progress
AuthCalls == IF batch.phase = "createUser" THEN batch.calls ELSE [p \in AuthCallers |-> IdleCall]
AuthReturned == IF batch.phase = "createUser" THEN batch.returned ELSE {}

AuthStep(p, call, returned, newdb, op) ==
    /\ batch' = [phase |-> "createUser", calls |-> [AuthCalls EXCEPT ![p] = call],
                 returned |-> returned]
    /\ db' = newdb
    /\ lastOp' = op
    /\ UNCHANGED <<redisTime, storeTicks>>
    /\ UNCHANGED limVars

\* createUser is called
CreateUserCall(p) ==
    /\ AuthCalls[p].pc = "idle"
    /\ opCount < MaxCreateUsers
    /\ opCount' = opCount + 1
    /\ \E username \in AuthUsernames, password \in AuthPasswords :
        AuthStep(p, [pc |-> "check", username |-> username, password |-> password,
                     taken |-> ~IsAbsent(getUserByUsername(db, username)), user |-> Null],
                 AuthReturned, db,
                 [op |-> "AuthUtils.createUser", step |-> "call", caller |-> p])

\* await this.getUserByUsername(username) answers: throw for an existing user
CreateUserCheck(p) ==
    /\ AuthCalls[p].pc = "check"
    /\ UNCHANGED opCount
    /\ LET call == AuthCalls[p]
           existingUser == getUserByUsername(db, call.username)
       IN IF ~IsAbsent(existingUser)
          THEN AuthStep(p, IdleCall, AuthReturned, db,
                        [op |-> "AuthUtils.createUser", step |-> "throw", caller |-> p,
                         arg |-> call.username, taken |-> call.taken,
                         error |-> "Username already exists", written |-> {}])
          ELSE AuthStep(p, [call EXCEPT !.pc = "hash"], AuthReturned, db,
                        [op |-> "AuthUtils.createUser", step |-> "check", caller |-> p])

\* await this.hashPassword(password) answers: the user is built and SET
CreateUserStore(p) ==
    /\ AuthCalls[p].pc = "hash"
    /\ UNCHANGED opCount
    /\ LET call == AuthCalls[p]
           user == [id |-> RandomUUID(db, AuthCalls), username |-> call.username,
                    name |-> call.username, passwordHash |-> HashPassword(call.password),
                    createdAt |-> ToISOString(clock)]
       IN AuthStep(p, [call EXCEPT !.pc = "index", !.user = user], AuthReturned,
                   RedisSet(db, UserKey(user.id), JSONStringifyRecord(user, UserOrder)),
                   [op |-> "AuthUtils.createUser", step |-> "set", caller |-> p])

\* the SET is done: the username is indexed and the user returned
CreateUserIndex(p) ==
    /\ AuthCalls[p].pc = "index"
    /\ UNCHANGED opCount
    /\ LET call == AuthCalls[p]
       IN AuthStep(p, IdleCall, AuthReturned \cup {call.user},
                   RedisHSet(db, IndexKey,
                             [f \in {call.username} |-> call.user.id]),
                   [op |-> "AuthUtils.createUser", step |-> "return", caller |-> p,
                    arg |-> call.username, taken |-> call.taken, rec |-> call.user,
                    written |-> {UserKey(call.user.id), IndexKey}])

AuthInit == LimIdle /\ StoreIdle
AuthNext ==
    \E p \in AuthCallers :
        \/ CreateUserCall(p)
        \/ CreateUserCheck(p)
        \/ CreateUserStore(p)
        \/ CreateUserIndex(p)
SpecAuth == AuthInit /\ [][AuthNext]_vars

CreateUserEnded == lastOp.op = "AuthUtils.createUser" /\ lastOp.step \in {"throw", "return"}

\* a call made for a username that has a user fails and writes nothing
RejectsTaken ==
    CreateUserEnded /\ lastOp.taken =>
        /\ lastOp.step = "throw"
        /\ lastOp.error = "Username already exists"
        /\ lastOp.written = {}

\* C20: usernames are unique. A createUser for a username that already has a
\* user fails with 'Username already exists' and writes nothing; after any
\* interleaving of createUser calls no two successful calls have returned
\* users with the same username, and the username index maps each username to
\* the only user record created for it (once no call is in progress)
C20_UniqueUsernames ==
    /\ RejectsTaken
    /\ \A u1 \in AuthReturned, u2 \in AuthReturned : u1.username = u2.username => u1 = u2
    /\ (\A p \in AuthCallers : AuthCalls[p].pc = "idle") =>
          /\ \A u1 \in StoredUsers(db), u2 \in StoredUsers(db) :
                u1.username = u2.username => u1 = u2
          /\ \A u \in AuthReturned : getUserByUsername(db, u.username) = u

\* what the code does hold: a call made after the username was indexed fails
\* and writes nothing, every returned user is stored under its own id, and the
\* index names a stored user of that username
C20_RejectsIndexedUsername ==
    /\ RejectsTaken
    /\ \A u \in AuthReturned :
          /\ getUserById(db, u.id) = u
          /\ ~IsAbsent(getUserByUsername(db, u.username))
          /\ getUserByUsername(db, u.username).username = u.username

----------------------------------------------------------------------------
(* AuthUtils: sessions, and the routes that log in, validate and log out *)

SESSION_TTL == 604800
SESSION_PREFIX == "session:"
SessionKey(sessionId) == <<SESSION_PREFIX, sessionId>>
SessionOrder == <<"sessionId", "userId", "username", "createdAt", "expiresAt">>

\* Bun.password.verify
VerifyPassword(password, hash) == hash = HashPassword(password)

\* AuthUtils.createUser, run from its first line to its last
createUser(d, username, password, name, now) ==
    IF ~IsAbsent(getUserByUsername(d, username))
    THEN [d |-> d, user |-> Null, error |-> "Username already exists"]
    ELSE LET user == [id |-> RandomUUID(d, <<>>), username |-> username, name |-> name,
                      passwordHash |-> HashPassword(password),
                      createdAt |-> ToISOString(now)]
         IN [d |-> RedisHSet(RedisSet(d, UserKey(user.id),
                                      JSONStringifyRecord(user, UserOrder)),
                             IndexKey, [f \in {username} |-> user.id]),
             user |-> user, error |-> ""]

\* a wrong variant, for comparison: the password is not verified
authenticateUser_anyPassword(d, username, password) == getUserByUsername(d, username)

\* AuthUtils.authenticateUser
authenticateUser(d, username, password) ==
    LET user == getUserByUsername(d, username)
    IN IF IsAbsent(user) THEN Null
       ELSE IF ~VerifyPassword(password, user.passwordHash) THEN Null
       ELSE user

\* AuthUtils.createSession: the store after SET and EXPIRE, and the session
createSession(d, sessionId, userId, username, now, storeNow) ==
    LET session == [sessionId |-> sessionId, userId |-> userId, username |-> username,
                    createdAt |-> ToISOString(now),
                    expiresAt |-> ToISOString(now + SESSION_TTL * 1000)]
    IN [d |-> SetWithExpire(d, SessionKey(sessionId),
                            JSONStringifyRecord(session, SessionOrder), SESSION_TTL, storeNow),
        session |-> session]

\* AuthUtils.deleteSession
deleteSession(d, sessionId) == RedisDel(d, SessionKey(sessionId))

\* a wrong variant, for comparison: the expiry is not looked at
getSession_unchecked(d, sessionId, now) ==
    LET sessionData == RedisGet(d, SessionKey(sessionId))
    IN IF sessionData.st # "ok" THEN [d |-> d, session |-> Null]
       ELSE [d |-> d, session |-> JSONParse(sessionData.val)]

\* AuthUtils.getSession: the session, or absent after deleting an expired one
getSession(d, sessionId, now) ==
    LET sessionData == RedisGet(d, SessionKey(sessionId))
    IN IF sessionData.st # "ok" THEN [d |-> d, session |-> Null]
       ELSE LET session == JSONParse(sessionData.val)
            IN IF DateOfISO(session.expiresAt) < now
               THEN [d |-> deleteSession(d, sessionId), session |-> Null]
               ELSE [d |-> d, session |-> session]

\* AuthUtils.refreshSession
refreshSession(d, sessionId, now, storeNow) ==
    LET got == getSession(d, sessionId, now)
    IN IF IsAbsent(got.session) THEN got
       ELSE LET updatedSession ==
                    [got.session EXCEPT !.expiresAt = ToISOString(now + SESSION_TTL * 1000)]
            IN [d |-> SetWithExpire(got.d, SessionKey(sessionId),
                                    JSONStringifyRecord(updatedSession, SessionOrder),
                                    SESSION_TTL, storeNow),
                session |-> updatedSession]

\* the sessions of the store
StoredSessions(d) == {JSONParse(d.data[k].val) : k \in RedisKeys(d, SESSION_PREFIX)}

\* authenticateRequest (auth-middleware) and the body of GET /api/auth/session:
\* the store it leaves, what it answers and what refreshSession returned
ValidateSession(d, cookie, now, storeNow) ==
    IF cookie = Undefined
    THEN [d |-> d, error |-> "No session found", statusCode |-> 401, refreshed |-> Null]
    ELSE LET got == getSession(d, cookie, now)
         IN IF IsAbsent(got.session)
            THEN [d |-> got.d, error |-> "Invalid or expired session", statusCode |-> 401,
                  refreshed |-> Null]
            ELSE LET user == getUserById(got.d, got.session.userId)
                 IN IF IsAbsent(user)
                    THEN [d |-> got.d, error |-> "User not found", statusCode |-> 401,
                          refreshed |-> Null]
                    ELSE LET fresh == refreshSession(got.d, cookie, now, storeNow)
                         IN [d |-> fresh.d, error |-> "", statusCode |-> 200,
                             user |-> [id |-> user.id, username |-> user.username,
                                       createdAt |-> user.createdAt],
                             session |-> [sessionId |-> got.session.sessionId,
                                          expiresAt |-> got.session.expiresAt],
                             refreshed |-> fresh.session]

\* POST /api/auth/login
LoginRoute(d, username, password, sessionId, now, storeNow) ==
    IF username = "" \/ password = ""
    THEN [d |-> d, status |-> 400, body |-> [error |-> "Username and password are required"]]
    ELSE LET user == authenticateUser(d, username, password)
         IN IF IsAbsent(user)
            THEN [d |-> d, status |-> 401, body |-> [error |-> "Invalid username or password"]]
            ELSE [d |-> createSession(d, sessionId, user.id, user.username, now, storeNow).d,
                  status |-> 200,
                  body |-> [success |-> TRUE, cookie |-> sessionId,
                            user |-> [id |-> user.id, username |-> user.username,
                                      name |-> user.name, createdAt |-> user.createdAt]]]

\* POST /api/auth/register
RegisterRoute(d, username, password, name, sessionId, now, storeNow) ==
    LET made == createUser(d, username, password, name, now)
    IN IF IsAbsent(made.user)
       THEN [d |-> d, status |-> 409, body |-> [error |-> made.error]]
       ELSE [d |-> createSession(made.d, sessionId, made.user.id, made.user.username, now,
                                 storeNow).d,
             status |-> 200,
             body |-> [success |-> TRUE, cookie |-> sessionId,
                       user |-> [id |-> made.user.id, username |-> made.user.username,
                                 name |-> made.user.name, createdAt |-> made.user.createdAt]]]

\* DELETE /api/auth/session
LogoutRoute(d, cookie) ==
    IF cookie = Undefined
    THEN [d |-> d, status |-> 401, body |-> [error |-> "No session found"]]
    ELSE [d |-> deleteSession(d, cookie), status |-> 200,
          body |-> [success |-> TRUE, message |-> "Logged out successfully"]]

MaxSessionOps == 2
MaxSessionTicks == 1
HOUR == 60 * 60 * 1000
SessionUsers == {"alice", "bob"}
LoginPasswords == {"secret1", "secret2"}
\* crypto.randomUUID(): the session id of the n-th operation
SessionIdPool == <<"s1", "s2", "s3", "s4">>
NewSessionId == SessionIdPool[opCount + 1]
Cookies == {Undefined, "s1", "s2"}

SessionStep(name, arg, status, rec, refreshed, newdb) ==
    /\ opCount < MaxSessionOps
    /\ db' = newdb
    /\ opCount' = opCount + 1
    /\ lastOp' = [op |-> name, arg |-> arg, status |-> status, rec |-> rec,
                  refreshed |-> refreshed, before |-> StoredSessions(db), at |-> clock,
                  known |-> IF "username" \in DOMAIN arg
                            THEN ~IsAbsent(getUserByUsername(db, arg.username))
                            ELSE FALSE]
    /\ UNCHANGED <<redisTime, storeTicks, batch>>
    /\ UNCHANGED limVars

Register ==
    \E username \in SessionUsers :
        \E out \in {RegisterRoute(db, username, "secret1", username, NewSessionId, clock,
                                  redisTime)} :
            SessionStep("POST /api/auth/register", [username |-> username], out.status,
                        out.body, Null, out.d)

Login ==
    \E username \in SessionUsers, password \in LoginPasswords :
        \E out \in {LoginRoute(db, username, password, NewSessionId, clock, redisTime)} :
            SessionStep("POST /api/auth/login",
                        [username |-> username, password |-> password], out.status,
                        out.body, Null, out.d)

\* GET /api/auth/session
GetSessionRoute ==
    \E cookie \in Cookies :
        \E out \in {ValidateSession(db, cookie, clock, redisTime)} :
            SessionStep("GET /api/auth/session", [cookie |-> cookie], out.statusCode,
                        IF out.statusCode = 200
                        THEN [success |-> TRUE, user |-> out.user, session |-> out.session]
                        ELSE [error |-> out.error],
                        out.refreshed, out.d)

\* authenticateRequest, as the protected routes call it
AuthenticateRequest ==
    \E cookie \in Cookies :
        \E out \in {ValidateSession(db, cookie, clock, redisTime)} :
            SessionStep("authenticateRequest", [cookie |-> cookie], out.statusCode,
                        IF out.statusCode = 200
                        THEN [user |-> out.user, session |-> out.session]
                        ELSE [error |-> out.error, statusCode |-> out.statusCode],
                        out.refreshed, out.d)

\* one call of AuthUtils.getSession
GetSession ==
    \E sessionId \in Cookies \ {Undefined} :
        \E out \in {getSession(db, sessionId, clock)} :
            SessionStep("AuthUtils.getSession", [sessionId |-> sessionId], 0, out.session,
                        Null, out.d)

Logout ==
    \E cookie \in Cookies :
        \E out \in {LogoutRoute(db, cookie)} :
            SessionStep("DELETE /api/auth/session", [cookie |-> cookie], out.status,
                        out.body, Null, out.d)

\* the server's clock advances: by an hour, or past the life of a session
SessionTick ==
    /\ lastOp.op # "none"
    /\ clock < StartClock + MaxSessionTicks * HOUR
    /\ \E t \in {clock + HOUR, clock + SESSION_TTL * 1000 + 1} : clock' = t
    /\ UNCHANGED <<lastRequestTime, requestTimes, pc, callNow, wakeAt, dispatched>>
    /\ UNCHANGED storeVars

SessionInit == LimIdle /\ StoreIdle
SessionNext ==
    \/ Register
    \/ Login
    \/ GetSessionRoute
    \/ AuthenticateRequest
    \/ GetSession
    \/ Logout
    \/ SessionTick
    \/ StoreTick
SpecSession == SessionInit /\ [][SessionNext]_vars

SessionServed == lastOp.op = "GET /api/auth/session" /\ lastOp.status = 200

\* C21: a successful GET /api/auth/session refreshes the session and reports the
\* refreshed session: the expiresAt of the response body is the expiry that
\* refreshSession returned, not the one the session had before the refresh
C21_ReportsRefreshedSession ==
    SessionServed =>
        /\ ~IsAbsent(lastOp.refreshed)
        /\ lastOp.rec.session.expiresAt = lastOp.refreshed.expiresAt

\* what the code does hold: the session is refreshed in the store, and the
\* response carries the expiry the session had before the refresh
C21_ReportsStoredSession ==
    SessionServed =>
        /\ ~IsAbsent(lastOp.refreshed)
        /\ lastOp.refreshed.expiresAt = ToISOString(lastOp.at + SESSION_TTL * 1000)
        /\ \A s \in StoredSessions(db) :
              s.sessionId = lastOp.arg.cookie => s = lastOp.refreshed
        /\ \E s \in lastOp.before :
              /\ s.sessionId = lastOp.arg.cookie
              /\ lastOp.rec.session.expiresAt = s.expiresAt

\* the session a request's cookie named before the operation, if it was expired
ExpiredBefore(sessionId) ==
    {s \in lastOp.before : s.sessionId = sessionId /\ DateOfISO(s.expiresAt) < lastOp.at}

\* C22: sessions expire. getSession never returns a session whose expiresAt is
\* earlier than the current time; an expired session is deleted and reported
\* as absent, and authenticateRequest then answers 401 'Invalid or expired
\* session'
C22_SessionsExpire ==
    /\ lastOp.op = "AuthUtils.getSession" =>
          /\ ~IsAbsent(lastOp.rec) => DateOfISO(lastOp.rec.expiresAt) >= lastOp.at
          /\ ExpiredBefore(lastOp.arg.sessionId) # {} =>
                /\ IsAbsent(lastOp.rec)
                /\ SessionKey(lastOp.arg.sessionId) \notin DOMAIN db.data
    /\ lastOp.op \in {"authenticateRequest", "GET /api/auth/session"} =>
          /\ lastOp.status = 200 => DateOfISO(lastOp.rec.session.expiresAt) >= lastOp.at
          /\ lastOp.arg.cookie # Undefined /\ ExpiredBefore(lastOp.arg.cookie) # {} =>
                /\ lastOp.status = 401
                /\ lastOp.rec.error = "Invalid or expired session"
                /\ SessionKey(lastOp.arg.cookie) \notin DOMAIN db.data

\* the store still held a session past its expiresAt, and authenticateRequest
\* was called with it
C22_Witness ==
    /\ lastOp.op = "authenticateRequest"
    /\ lastOp.arg.cookie = "s1"
    /\ ExpiredBefore("s1") # {}
    /\ lastOp.status = 401
    /\ StoredSessions(db) = {}

LoginServed == lastOp.op = "POST /api/auth/login"
LoginFailure == [error |-> "Invalid username or password"]

\* C23: login does not reveal whether a username exists. An unknown username
\* and a known username with a wrong password get the same status (401) and
\* the same body ('Invalid username or password'), and no session is created
\* in either case; a session is created only for a known username with its
\* password
C23_LoginHidesUsernames ==
    LoginServed =>
        LET known == lastOp.known
            right == lastOp.arg.password = "secret1"
        IN /\ ~(known /\ right) =>
                 /\ lastOp.status = 401
                 /\ lastOp.rec = LoginFailure
                 /\ \A s \in StoredSessions(db) : s \in lastOp.before
           /\ (known /\ right) => lastOp.status = 200

\* a registered user logged in with a wrong password
C23_Witness ==
    /\ LoginServed
    /\ lastOp.known
    /\ lastOp.arg.password = "secret2"
    /\ lastOp.status = 401
    /\ StoredSessions(db) # {}

----------------------------------------------------------------------------
(* Who may delete a listening entry *)

DeleteServed == lastOp.op = "DELETE /api/listening/[username]"
\* the request removed the entry of the user it names
EntryRemoved ==
    /\ DeleteServed
    /\ ~IsAbsent(lastOp.before)
    /\ IsAbsent(getListeningEntry(db, lastOp.arg.username, lastOp.arg.date))
\* the request's cookie names a stored, unexpired session of that user
CarriesSessionOf(username) ==
    /\ lastOp.arg.cookie # Undefined
    /\ ~IsAbsent(getSession(db, lastOp.arg.cookie, lastOp.at).session)
    /\ getSession(db, lastOp.arg.cookie, lastOp.at).session.username = username

\* C24: users can delete only their own listening entries. The DELETE route
\* removes an entry of user U only when the request carries a valid, unexpired
\* session that belongs to U; every other request leaves U's entries unchanged
C24_DeleteOwnEntries == EntryRemoved => CarriesSessionOf(lastOp.arg.username)

\* what the code does hold: an entry is removed only by a request that has some
\* session_id cookie, whatever its value
C24_DeleteNeedsCookie ==
    /\ EntryRemoved => lastOp.arg.cookie # Undefined /\ lastOp.status = 200
    /\ DeleteServed /\ lastOp.status # 200 =>
          getListeningEntry(db, lastOp.arg.username, lastOp.arg.date) = lastOp.before

----------------------------------------------------------------------------
(* Cover art and the cover-art cache *)

CoverArtReturned(name) ==
    /\ lastOp.op = name
    /\ lastOp.ok
    /\ ~IsAbsent(lastOp.rec)

\* C25: cover-art read-through. After getCoverArtUrl(id) has returned a URL u,
\* getCachedCoverArt(id) returns u (so that a second getCoverArtUrl(id) within
\* the cover-art TTL is answered with the same u from the cache)
C25_CoverArtReadThrough ==
    CoverArtReturned("MusicBrainzClient.getCoverArtUrl") =>
        MusicCache_getCachedCoverArt(db, lastOp.arg.mbid) = lastOp.rec

\* the earlier getCoverArtUrl (with the cover-art cache) does read through
C25_EarlierReadThrough ==
    CoverArtReturned("MusicBrainzClient.getCoverArtUrl (cached)") =>
        MusicCache_getCachedCoverArt(db, lastOp.arg.mbid) = lastOp.rec

\* getCoverArtUrl was called, the archive listed an image, and the download
\* of that image had an outcome
ArtworkFound ==
    /\ lastOp.op = "MusicBrainzClient.getCoverArtUrl"
    /\ "download" \in DOMAIN lastOp.arg
    /\ lastOp.arg.answer.st = "ok"
    /\ lastOp.arg.answer.images # <<>>

\* C29: local artwork preference. When getCoverArtUrl finds an artwork URL it
\* delegates to downloadAndSaveArtwork; if the save returns a local path, that
\* path is returned, and if the save returns absent, the external URL is
\* returned
C29_LocalArtworkPreferred ==
    ArtworkFound =>
        LET external == SelectCoverArt(lastOp.arg.answer.images).url
            saved == downloadAndSaveArtwork(lastOp.arg.mbid, external, lastOp.arg.download)
        IN lastOp.rec = IF IsAbsent(saved) THEN [url |-> external] ELSE [url |-> saved.path]

\* what the code does hold: the metadata URL is returned, whatever the archive
\* lists and whatever the download gives
C29_MetadataUrlReturned ==
    ArtworkFound => lastOp.rec = [url |-> CoverArtMetadataUrl(lastOp.arg.mbid)]

----------------------------------------------------------------------------
(* The limiter under concurrent callers *)

\* caller p has checked the window and has not yet recorded its request
BetweenCheckAndRecord(p) == pc[p] \in {"burstWait", "spaceWait", "fetching"}
\* this step is one in which caller q reads or writes requestTimes or
\* lastRequestTime: the entry of makeRequest, the spacing check after the burst
\* wait, the recording after the response
TouchesLimiter(q) ==
    \/ pc[q] = "idle" /\ pc'[q] # "idle"
    \/ pc[q] = "burstWait" /\ pc'[q] # "burstWait"
    \/ pc[q] = "fetching" /\ pc'[q] = "idle" /\ requestTimes' # requestTimes

\* C26: in makeRequest 'prune the window, check the count, record the new
\* timestamp' run without a suspension point between them: between one
\* caller's window check and that caller's timestamp append no other caller
\* reads or modifies requestTimes or lastRequestTime
C26_CheckAndRecordAtomic ==
    [][\A p \in Callers, q \in Callers :
          (p # q /\ BetweenCheckAndRecord(p)) => ~TouchesLimiter(q)]_vars

\* C27: minimum spacing. While the window holds fewer than BURST_LIMIT
\* timestamps (as it does for the first BURST_LIMIT dispatches), any two
\* successively dispatched requests are at least RATE_LIMIT_DELAY apart, for
\* every interleaving of callers
C27_MinimumSpacing ==
    \A i \in DOMAIN dispatched :
        (i > 1 /\ i <= BURST_LIMIT) => dispatched[i] - dispatched[i - 1] >= RATE_LIMIT_DELAY

----------------------------------------------------------------------------
(* The representative release of a release group *)

\* a release date as a number; a release without a date comes after every date
DateValue(date) ==
    CASE date = "2019" -> 2019
      [] date = "2020" -> 2020
      [] OTHER -> 9999
ReleasesReturned ==
    /\ lastOp.op = "MusicBrainzClient.getReleaseGroupReleases"
    /\ lastOp.arg.data.st = "ok"
    /\ lastOp.arg.data.hasReleases
\* albums is, in order, a choice of 'count' of the releases such that no release
\* left out is dated before one that was taken
EarliestFirst(albums, releases, count) ==
    /\ Len(albums) = count
    /\ \A i \in DOMAIN albums : \E k \in DOMAIN releases :
          releases[k].id = albums[i].id /\ releases[k].date = albums[i].releaseDate
    /\ \A i, j \in DOMAIN albums : i < j =>
          /\ albums[i].id # albums[j].id
          /\ DateValue(albums[i].releaseDate) <= DateValue(albums[j].releaseDate)
    /\ \A k \in DOMAIN releases :
          (\A i \in DOMAIN albums : albums[i].id # releases[k].id) =>
              \A i \in DOMAIN albums :
                  DateValue(albums[i].releaseDate) <= DateValue(releases[k].date)
Smaller(a, b) == IF a < b THEN a ELSE b

\* C28: getReleaseGroupReleases(g, limit) returns the first 'limit' releases of
\* the group in ascending order of release date, the releases without a date
\* after all dated ones; search() therefore takes as the representative of a
\* group its earliest-dated release, and an undated one only when no release
\* of the group has a date
C28_RepresentativeRelease ==
    /\ ReleasesReturned =>
          EarliestFirst(lastOp.rec, lastOp.arg.data.releases,
                        Smaller(lastOp.arg.limit, Len(lastOp.arg.data.releases)))
    /\ (lastOp.op = "MusicBrainzClient.search" /\ lastOp.ok) =>
          \A i \in DOMAIN lastOp.rec.albums :
              LET album == lastOp.rec.albums[i]
                  data == lastOp.arg.subs[album.releaseGroupId]
              IN (data.st = "ok" /\ data.hasReleases /\ data.releases # <<>>) =>
                     EarliestFirst(<<album>>, data.releases, 1)
\* a call that had to reorder: an undated release listed first, a later date
\* listed before an earlier one, and fewer releases asked for than there are
C28_Witness ==
    /\ ReleasesReturned
    /\ Len(lastOp.arg.data.releases) = 3
    /\ lastOp.arg.limit = 2
    /\ lastOp.arg.data.releases[1].date = Undefined
    /\ lastOp.arg.data.releases[2].date = "2020"
    /\ lastOp.arg.data.releases[3].date = "2019"
    /\ lastOp.rec[1].id = "r2" /\ lastOp.rec[2].id = "r1"

----------------------------------------------------------------------------
(* Populating the cache after a fetch: the two entries of a record *)

\* the latest request fetched a record upstream and went on to cache it
Populated ==
    /\ lastOp.op \in {"GET /api/music/album", "GET /api/music/artist"}
    /\ "commands" \in DOMAIN lastOp.arg
    /\ Ran("upstream")
    /\ ~IsAbsent(lastOp.fetched)
\* the record as a reader of the store gets it
AsStored(record, order) == JSONParse(JSONStringify(record, order))
FetchedAsStored ==
    IF lastOp.op = "GET /api/music/album" THEN AsStored(lastOp.fetched, AlbumFields)
    ELSE AsStored(lastOp.fetched, ArtistFields)
WriteFailed == lastOp.arg.commands < lastOp.arg.all

\* C30: dual write on cache population. When the album or artist route populates
\* the cache after an upstream fetch, the write under the internal id has
\* completed before the write under the external id is issued and both store
\* the same record; when a store write fails the request does not report
\* success, and the only partial state is 'internal-id entry new, external-id
\* entry stale or absent'
C30_DualWrite ==
    Populated =>
        /\ (Ran("cacheAlbumByMBID") \/ Ran("cacheArtistByMBID")) =>
              lastOp.after.internal = FetchedAsStored
        /\ ~WriteFailed =>
              /\ lastOp.after.internal = FetchedAsStored
              /\ lastOp.after.external = FetchedAsStored
        /\ WriteFailed => lastOp.status = 500
        /\ lastOp.after.internal \in {FetchedAsStored, lastOp.before.internal}
        /\ lastOp.after.external \in {FetchedAsStored, lastOp.before.external}
        /\ lastOp.after.external # lastOp.before.external =>
              lastOp.after.internal = FetchedAsStored
\* a request whose external-id write failed after its internal-id write: the
\* internal-id entry is new, the external-id entry is the stale one of an
\* earlier request
C30_Witness ==
    /\ Populated
    /\ WriteFailed
    /\ lastOp.status = 500
    /\ lastOp.after.internal = FetchedAsStored
    /\ ~IsAbsent(lastOp.before.external)
    /\ lastOp.after.external = lastOp.before.external
    /\ lastOp.after.external # FetchedAsStored

----------------------------------------------------------------------------
(* Read-through by external id in the album and artist routes *)

LookupRoutes == {"GET /api/music/album", "GET /api/music/artist"}
\* the store served every command of the request o
StoreServed(o) ==
    IF "commands" \in DOMAIN o.arg THEN o.arg.commands = o.arg.all ELSE o.arg.storeUp
\* the request o names an mbid and no id; an id and no mbid
ByMbid(o) == o.op \in LookupRoutes /\ o.arg.id = Undefined /\ o.arg.mbid # Undefined
ById(o) == o.op \in LookupRoutes /\ o.arg.id # Undefined /\ o.arg.mbid = Undefined
\* what the provider's answer to the request o comes to
Fetched(o) ==
    IF o.op = "GET /api/music/album" THEN getRelease(o.arg.answer) ELSE getArtist(o.arg.answer)
\* the entry under the mbid of the request o, as a reader of the store d gets it
EntryByMbid(d, o) ==
    IF o.op = "GET /api/music/album" THEN MusicStorage_getCachedAlbumByMBID(d, o.arg.mbid)
    ELSE MusicStorage_getCachedArtistByMBID(d, o.arg.mbid)
StoredForm(o) ==
    IF o.op = "GET /api/music/album" THEN AsStored(Fetched(o), AlbumFields)
    ELSE AsStored(Fetched(o), ArtistFields)
\* the request o missed the cache, fetched a record and wrote it back
ReadThrough(o) ==
    /\ ByMbid(o) /\ StoreServed(o)
    /\ IsAbsent(o.read)
    /\ ~IsAbsent(Fetched(o))

\* C31: read-through by external id. A lookup of an album or artist by mbid
\* whose cache entry is absent queries upstream once and, when the fetch
\* succeeds, has written the entry back when it responds; a later lookup by the
\* same mbid, nothing having expired or been invalidated in between, is
\* answered from the cache (cached = true) without an upstream request; a
\* lookup by internal id alone never calls upstream
C31_ReadThrough ==
    [][(opCount' = opCount + 1 /\ lastOp'.op \in LookupRoutes) =>
          /\ (ByMbid(lastOp') /\ StoreServed(lastOp') /\ IsAbsent(lastOp'.read)) =>
                Len(dispatched') = Len(dispatched) + 1
          /\ ReadThrough(lastOp') => EntryByMbid(db', lastOp') = StoredForm(lastOp')
          /\ (ReadThrough(lastOp) /\ ByMbid(lastOp') /\ StoreServed(lastOp')
              /\ lastOp'.op = lastOp.op /\ lastOp'.arg.mbid = lastOp.arg.mbid) =>
                /\ lastOp'.cached
                /\ lastOp'.status = 200
                /\ lastOp'.rec = StoredForm(lastOp)
                /\ dispatched' = dispatched
          /\ ById(lastOp') => dispatched' = dispatched]_vars
\* the second of two lookups by the same mbid, answered from the cache
C31_Witness ==
    /\ opCount = 2
    /\ ByMbid(lastOp)
    /\ lastOp.cached
    /\ Len(dispatched) = 1

----------------------------------------------------------------------------
(* Repeated cover-art lookups through the cover-art cache *)

MaxCoverCalls == 2

\* one call of the caching getCoverArtUrl among several; 'requested' tells whether
\* the call got as far as its fetch from the cover art provider
CoverCall ==
    /\ opCount < MaxCoverCalls
    /\ \E mbid \in ReleaseIds, answer \in CoverAnswers, storeUp \in BOOLEAN :
        \E out \in {getCoverArtUrl_cached(db, mbid, answer, storeUp, redisTime)} :
            /\ db' = out.d
            /\ lastOp' = [op |-> "MusicBrainzClient.getCoverArtUrl (cached)",
                          arg |-> [mbid |-> mbid, answer |-> answer, storeUp |-> storeUp],
                          requested |-> storeUp /\ IsAbsent(MusicCache_getCachedCoverArt(db, mbid)),
                          rec |-> out.value, at |-> redisTime, ok |-> out.status = "fulfilled"]
    /\ opCount' = opCount + 1
    /\ UNCHANGED <<redisTime, storeTicks, batch>>
    /\ UNCHANGED limVars

CoverCacheInit == LimIdle /\ StoreIdle
CoverCacheNext == CoverCall \/ StoreTick
SpecCoverCache == CoverCacheInit /\ [][CoverCacheNext]_vars

\* the latest call asked the provider and came back without an image: the request
\* failed, the answer could not be read, or it listed no image
CameBackEmpty(o) ==
    /\ o.op = "MusicBrainzClient.getCoverArtUrl (cached)"
    /\ o.ok /\ o.requested
    /\ IsAbsent(o.rec)

\* C32: negative cover-art caching. After getCoverArtUrl(id) has failed or found
\* no image, a later getCoverArtUrl(id) within the cover-art TTL returns 'no
\* artwork' without issuing another request to the cover art provider
C32_NegativeCaching ==
    [][(/\ CameBackEmpty(lastOp)
        /\ opCount' = opCount + 1
        /\ lastOp'.arg.mbid = lastOp.arg.mbid
        /\ lastOp'.arg.storeUp
        /\ redisTime < lastOp.at + COVER_ART_TTL)
          => /\ IsAbsent(lastOp'.rec)
             /\ ~lastOp'.requested]_vars

\* what the code does hold: a URL that was found is not asked for again within
\* the cover-art TTL
C32_PositiveCaching ==
    [][(/\ lastOp.op = "MusicBrainzClient.getCoverArtUrl (cached)"
        /\ lastOp.ok /\ ~IsAbsent(lastOp.rec)
        /\ opCount' = opCount + 1
        /\ lastOp'.arg.mbid = lastOp.arg.mbid
        /\ lastOp'.arg.storeUp
        /\ redisTime < lastOp.at + COVER_ART_TTL)
          => /\ lastOp'.rec = lastOp.rec
             /\ ~lastOp'.requested]_vars

----------------------------------------------------------------------------
(* The albums searchAlbums returns for an index reply *)

\* the document ids of a reply [total, id1, score1, fields1, id2, score2, fields2, ...]
HitIds(result) == [n \in 1..((Len(result) - 1) \div 3) |-> result[3 * n - 1]]
\* the albums stored under album:<id> for the hits, in reply order, hits without
\* an album entry left out
HitAlbums(d, result) ==
    LET present == SelectSeq(HitIds(result), LAMBDA id : HitAlbumData(d, id.key).st = "ok")
    IN [n \in DOMAIN present |-> JSONParse(HitAlbumData(d, present[n].key).val)]
RedisSearchServed ==
    /\ lastOp.op = "GET /api/music/search/redis"
    /\ lastOp.arg.storeUp
    /\ lastOp.arg.reply.st = "ok"

\* C33: given an index reply of the documented shape [total, id1, score1,
\* fields1, ...], searchAlbums returns exactly the albums stored under
\* album:<id> for the hit ids, in reply order, skipping only the hits whose
\* album:<id> entry is absent
C33_SearchAlbumsHits ==
    RedisSearchServed =>
        lastOp.local.results.albums = HitAlbums(db, lastOp.arg.reply.result)

\* what the code does hold: the loop steps over the reply two elements at a
\* time, takes the fields of the first hit for an id and throws, so a reply
\* with a hit yields no album
C33_HitsLost ==
    RedisSearchServed => lastOp.local.results.albums = <<>>

----------------------------------------------------------------------------
(* Logout while refreshSession calls are in progress *)

MaxLogoutOps == 3
RefreshCallers == {"f1", "f2"}
LogoutSession == "s1"

IdleRefresh == [pc |-> "idle", session |-> Null]
\* the refreshSession calls in progress, whether deleteSession has completed, and
\* whether a refreshSession call was between its GET and its EXPIRE at that moment
RefreshCalls ==
    IF batch.phase = "refresh" THEN batch.calls ELSE [p \in RefreshCallers |-> IdleRefresh]
Deleted == batch.phase = "refresh" /\ batch.deleted
Raced == batch.phase = "refresh" /\ batch.raced
LogoutStep(calls, deleted, raced, newdb, op) ==
    /\ batch' = [phase |-> "refresh", calls |-> calls, deleted |-> deleted, raced |-> raced]
    /\ db' = newdb
    /\ lastOp' = op
    /\ UNCHANGED <<redisTime, storeTicks>>
    /\ UNCHANGED limVars

\* a user registers and so gets the session that the calls below are about
RegisterFirst ==
    /\ lastOp.op = "none"
    /\ UNCHANGED opCount
    /\ \E out \in {RegisterRoute(db, "alice", "secret1", "alice", LogoutSession, clock,
                                 redisTime)} :
        LogoutStep(RefreshCalls, FALSE, FALSE, out.d,
                   [op |-> "POST /api/auth/register", status |-> out.status])

\* refreshSession(id) is called, before the delete: its getSession is awaited
RefreshCall(p) ==
    /\ lastOp.op # "none"
    /\ RefreshCalls[p].pc = "idle"
    /\ ~Deleted
    /\ opCount < MaxLogoutOps
    /\ opCount' = opCount + 1
    /\ LogoutStep([RefreshCalls EXCEPT ![p] = [pc |-> "get", session |-> Null]],
                  Deleted, Raced, db,
                  [op |-> "AuthUtils.refreshSession", step |-> "call", caller |-> p])

\* getSession answers: null is returned, or the updated session is built
RefreshGet(p) ==
    /\ RefreshCalls[p].pc = "get"
    /\ UNCHANGED opCount
    /\ \E got \in {getSession(db, LogoutSession, clock)} :
        IF IsAbsent(got.session)
        THEN LogoutStep([RefreshCalls EXCEPT ![p] = IdleRefresh], Deleted, Raced, got.d,
                        [op |-> "AuthUtils.refreshSession", step |-> "return", caller |-> p,
                         rec |-> Null])
        ELSE LogoutStep([RefreshCalls EXCEPT ![p] =
                            [pc |-> "set",
                             session |-> [got.session EXCEPT
                                            !.expiresAt = ToISOString(clock + SESSION_TTL * 1000)]]],
                        Deleted, Raced, got.d,
                        [op |-> "AuthUtils.refreshSession", step |-> "get", caller |-> p])

\* await client.set(...)
RefreshSet(p) ==
    /\ RefreshCalls[p].pc = "set"
    /\ UNCHANGED opCount
    /\ LogoutStep([RefreshCalls EXCEPT ![p].pc = "expire"], Deleted, Raced,
                  RedisSet(db, SessionKey(LogoutSession),
                           JSONStringifyRecord(RefreshCalls[p].session, SessionOrder)),
                  [op |-> "AuthUtils.refreshSession", step |-> "set", caller |-> p])

\* await client.expire(...), and the updated session is returned
RefreshExpire(p) ==
    /\ RefreshCalls[p].pc = "expire"
    /\ UNCHANGED opCount
    /\ LogoutStep([RefreshCalls EXCEPT ![p] = IdleRefresh], Deleted, Raced,
                  RedisExpire(db, SessionKey(LogoutSession), SESSION_TTL, redisTime),
                  [op |-> "AuthUtils.refreshSession", step |-> "return", caller |-> p,
                   rec |-> RefreshCalls[p].session])

\* DELETE /api/auth/session with the cookie of the session: deleteSession completes
LogoutDelete ==
    /\ lastOp.op # "none"
    /\ ~Deleted
    /\ UNCHANGED opCount
    /\ \E out \in {LogoutRoute(db, LogoutSession)} :
        LogoutStep(RefreshCalls, TRUE,
                   \E p \in RefreshCallers : RefreshCalls[p].pc \in {"set", "expire"},
                   out.d, [op |-> "DELETE /api/auth/session", status |-> out.status])

\* getSession(id), called after the delete
GetSessionLater ==
    /\ Deleted
    /\ opCount < MaxLogoutOps
    /\ opCount' = opCount + 1
    /\ \E got \in {getSession(db, LogoutSession, clock)} :
        LogoutStep(RefreshCalls, Deleted, Raced, got.d,
                   [op |-> "AuthUtils.getSession", succeeded |-> ~IsAbsent(got.session)])

\* authenticateRequest with the cookie of the session, called after the delete
AuthenticateLater ==
    /\ Deleted
    /\ opCount < MaxLogoutOps
    /\ opCount' = opCount + 1
    /\ \E out \in {ValidateSession(db, LogoutSession, clock, redisTime)} :
        LogoutStep(RefreshCalls, Deleted, Raced, out.d,
                   [op |-> "authenticateRequest", succeeded |-> out.statusCode = 200])

LogoutInit == LimIdle /\ StoreIdle
LogoutNext ==
    \/ RegisterFirst
    \/ LogoutDelete
    \/ GetSessionLater
    \/ AuthenticateLater
    \/ \E p \in RefreshCallers :
        \/ RefreshCall(p)
        \/ RefreshGet(p)
        \/ RefreshSet(p)
        \/ RefreshExpire(p)
SpecLogout == LogoutInit /\ [][LogoutNext]_vars

CheckedAfterLogout == lastOp.op \in {"AuthUtils.getSession", "authenticateRequest"}

\* C34: logout is final. Once deleteSession(id) has completed, no later
\* getSession(id) or authenticateRequest with that id succeeds, for every
\* interleaving with refreshSession(id) calls started before the delete
C34_LogoutFinal == CheckedAfterLogout => ~lastOp.succeeded

\* what the code does hold: logout is final when no refreshSession call was
\* between its read and its writes as deleteSession completed
C34_FinalWithoutRace == (CheckedAfterLogout /\ ~Raced) => ~lastOp.succeeded

----------------------------------------------------------------------------
(* Cache writes that stop between their SET and their EXPIRE *)

MaxWrites == 2

\* await client.set(key, text); await client.expire(key, ttl), when the store serves
\* 'commands' of the two commands and rejects the rest
SetThenExpire(d, k, text, ttl, now, commands) ==
    CASE commands = 0 -> d
      [] commands = 1 -> RedisSet(d, k, text)
      [] OTHER -> SetWithExpire(d, k, text, ttl, now)

\* one cache write from call to return or throw
WriteLost(name, k, text, ttl) ==
    /\ opCount < MaxWrites
    /\ opCount' = opCount + 1
    /\ \E commands \in 0..2 :
        /\ db' = SetThenExpire(db, k, text, ttl, redisTime, commands)
        /\ lastOp' = [op |-> name, key |-> k, ttl |-> ttl, commands |-> commands,
                      at |-> redisTime, ok |-> commands = 2]
    /\ UNCHANGED <<redisTime, storeTicks, batch>>
    /\ UNCHANGED limVars

CacheAlbumLost ==
    \E a \in Albums :
        WriteLost("MusicCache.cacheAlbum", AlbumKey(a.id), JSONStringify(a, AlbumFields),
                  DEFAULT_TTL)
CacheSearchResultsLost ==
    \E q \in Queries, r \in SearchResults :
        WriteLost("MusicCache.cacheSearchResults", MusicCache_searchKey(q),
                  StringifySearchResult(r), SEARCH_TTL)
StorageCacheSearchResultsLost ==
    \E q \in Queries, r \in SearchResults :
        WriteLost("MusicStorage.cacheSearchResults", MusicStorage_searchKey(q),
                  StringifySearchResult(r), STORAGE_SEARCH_TTL)
CreateSessionLost ==
    \E sessionId \in {"s1", "s2"} :
        WriteLost("AuthUtils.createSession", SessionKey(sessionId),
                  JSONStringifyRecord(createSession(db, sessionId, "u1", "alice", clock,
                                                    redisTime).session, SessionOrder),
                  SESSION_TTL)

ExpiryInit == LimIdle /\ StoreIdle
ExpiryNext ==
    \/ CacheAlbumLost
    \/ CacheSearchResultsLost
    \/ StorageCacheSearchResultsLost
    \/ CreateSessionLost
    \/ StoreTick
SpecExpiry == ExpiryInit /\ [][ExpiryNext]_vars

\* C35: every cache key that exists once its cache operation has ended carries
\* a TTL: if the operation fails or stops between its set and its expire, no
\* key is left in the store without an expiry
C35_KeysCarryTtl == \A k \in DOMAIN db.data : k \in DOMAIN db.exp

\* what the code does hold: a key written by an operation that ran to its end
\* carries the TTL of its kind for as long as it is there
C35_TtlWhenCompleted ==
    (lastOp.op # "none" /\ lastOp.ok /\ lastOp.key \in DOMAIN db.data) =>
        /\ lastOp.key \in DOMAIN db.exp
        /\ db.exp[lastOp.key] = lastOp.at + lastOp.ttl

----------------------------------------------------------------------------
(* Cache addresses and the store keys behind them *)

\* id strings to read with: plain ids, and ids that start with a key prefix or end
\* with a key suffix
ProbeIds == {"r1", "mbid:r1", "hash:r1", "a1", "a1:albums", "g1", "g1:releases"}
\* what the readers by internal id return for the id x; the readers by external id
\* and the readers of the secondary lists
InternalReads(d, x) ==
    <<MusicCache_getCachedAlbum(d, x), MusicCache_getCachedArtist(d, x),
      MusicCache_getCachedReleaseGroup(d, x), MusicStorage_getCachedAlbum(d, x),
      MusicStorage_getCachedArtist(d, x)>>
ExternalReads(d, x) ==
    <<MusicCache_getCachedAlbumByMBID(d, x), MusicCache_getCachedArtistByMBID(d, x),
      MusicCache_getCachedReleaseGroupByMBID(d, x), MusicCache_getCachedArtistAlbums(d, x),
      MusicCache_getCachedReleaseGroupReleases(d, x),
      MusicStorage_getCachedAlbumByMBID(d, x), MusicStorage_getCachedArtistByMBID(d, x)>>

\* C36: distinct cache addresses never share a store key. For all id strings, a
\* write through cache<Kind>ByMBID, cacheArtistAlbums, cacheReleaseGroupReleases
\* or the album hash index never changes what getCachedAlbum, getCachedArtist
\* or getCachedReleaseGroup returns for any internal id (for the hash index:
\* any id other than the album's own), and a write by internal id never
\* changes what the readers by external id and of the lists return
C36_DistinctAddresses ==
    [][OpStep =>
        /\ lastOp'.op \in ByMBIDWrites \cup ListWrites =>
              \A x \in ProbeIds : InternalReads(db', x) = InternalReads(db, x)
        /\ lastOp'.op = "MusicStorage.cacheAlbum" =>
              \A x \in ProbeIds \ {lastOp'.rec.id} :
                  MusicStorage_getCachedAlbum(db', x) = MusicStorage_getCachedAlbum(db, x)
        /\ lastOp'.op \in ByIdWrites =>
              \A x \in ProbeIds : ExternalReads(db', x) = ExternalReads(db, x)
      ]_vars

----------------------------------------------------------------------------
(* What a failed request leaves in the limiter *)

MaxCalls == 3

\* one makeRequest call by a single caller, from entry to return (2xx) or throw
Request ==
    /\ opCount < MaxCalls
    /\ \A p \in Callers : pc[p] = "idle"
    /\ \E ok \in BOOLEAN :
        \E lim \in {makeRequest(LimNow, ok)} :
            /\ clock' = lim.clock
            /\ lastRequestTime' = lim.lastRequestTime
            /\ requestTimes' = lim.requestTimes
            /\ dispatched' = lim.dispatched
            /\ lastOp' = [op |-> "MusicBrainzClient.makeRequest", ok |-> ok, entered |-> clock,
                          sent |-> lim.clock,
                          before |-> [requestTimes |-> requestTimes,
                                      lastRequestTime |-> lastRequestTime]]
    /\ opCount' = opCount + 1
    /\ UNCHANGED <<pc, callNow, wakeAt, redisTime, storeTicks, db, batch>>

FailedInit == LimIdle /\ StoreIdle
FailedNext == Request \/ Tick \/ TickWindow
SpecFailed == FailedInit /\ [][FailedNext]_vars

RequestFailedLast == lastOp.op = "MusicBrainzClient.makeRequest" /\ ~lastOp.ok
\* the timestamps of a window that were less than BURST_WINDOW old at the time
StillInWindow(times, now) == SelectSeq(times, LAMBDA t : now - t < BURST_WINDOW)

\* C37 as stated: a makeRequest call whose fetch throws or returns a non-2xx
\* status leaves requestTimes and lastRequestTime unchanged
C37_FailureLeavesUnchanged ==
    RequestFailedLast =>
        /\ requestTimes = lastOp.before.requestTimes
        /\ lastRequestTime = lastOp.before.lastRequestTime

\* C37: a makeRequest call whose fetch throws or returns a non-2xx status adds
\* no timestamp and leaves lastRequestTime unchanged: requestTimes only loses
\* the timestamps that were BURST_WINDOW old or older when the call was made;
\* a call that received a 2xx response is counted, at the time it was sent
C37_FailureAddsNothing ==
    lastOp.op = "MusicBrainzClient.makeRequest" =>
        IF lastOp.ok
        THEN /\ requestTimes = Append(StillInWindow(lastOp.before.requestTimes, lastOp.entered),
                                      lastOp.sent)
             /\ lastRequestTime = lastOp.sent
        ELSE /\ requestTimes = StillInWindow(lastOp.before.requestTimes, lastOp.entered)
             /\ lastRequestTime = lastOp.before.lastRequestTime
\* a failed call that was made when a counted request had left the window
C37_Witness ==
    /\ RequestFailedLast
    /\ lastOp.before.requestTimes # <<>>
    /\ requestTimes # lastOp.before.requestTimes
    /\ lastRequestTime = lastOp.before.lastRequestTime

----------------------------------------------------------------------------
(* UserAlbums.calculateStreaks *)

MaxDay == 6

\* a date is the number of its day (the server runs in UTC, so setHours(0, 0, 0, 0)
\* gives the day's midnight and the difference in days is the difference of the
\* numbers); a user has one entry per date
Days == 1..MaxDay
Todays_ == 1..(MaxDay + 2)
\* albums.map(album => new Date(album.date)).sort(...): the days in ascending order
RECURSIVE SortDays(_)
SortDays(days) ==
    IF days = {} THEN <<>>
    ELSE LET first == CHOOSE x \in days : \A y \in days : x <= y
         IN <<first>> \o SortDays(days \ {first})
Greater(a, b) == IF a > b THEN a ELSE b

\* the loop of calculateStreaks from index i on (dates[i - 1] and dates[i] in the
\* code's counting are dates[i] and dates[i + 1] here)
RECURSIVE StreakLoop(_, _, _)
StreakLoop(dates, i, st) ==
    IF i >= Len(dates) THEN st
    ELSE LET dayDiff == dates[i + 1] - dates[i]
         IN IF dayDiff = 1
            THEN StreakLoop(dates, i + 1,
                     [st EXCEPT !.tempStreak = @ + 1,
                                !.currentStreak = IF i + 1 = Len(dates) /\ dayDiff <= 1
                                                  THEN st.tempStreak + 1 ELSE @])
            ELSE StreakLoop(dates, i + 1,
                     [st EXCEPT !.longestStreak = Greater(@, st.tempStreak),
                                !.tempStreak = 1])

calculateStreaks(dates, today) ==
    IF Len(dates) = 0 THEN [currentStreak |-> 0, longestStreak |-> 0]
    ELSE LET mostRecent == dates[Len(dates)]
             dayDiff == today - mostRecent
             st == StreakLoop(dates, 1,
                       [currentStreak |-> IF dayDiff <= 1 THEN 1 ELSE 0,
                        longestStreak |-> 0, tempStreak |-> 1])
         IN [currentStreak |-> st.currentStreak,
             longestStreak |-> Greater(st.longestStreak, st.tempStreak)]

\* one call of calculateStreaks
CalculateStreaks ==
    /\ lastOp.op = "none"
    /\ \E days \in SUBSET Days, today \in Todays_ :
        \E dates \in {SortDays(days)} :
            lastOp' = [op |-> "UserAlbums.calculateStreaks",
                       arg |-> [dates |-> dates, today |-> today],
                       rec |-> calculateStreaks(dates, today), at |-> redisTime, ok |-> TRUE]
    /\ opCount' = opCount + 1
    /\ UNCHANGED <<redisTime, storeTicks, db, batch>>
    /\ UNCHANGED limVars

StreaksInit == LimIdle /\ StoreIdle
StreaksNext == CalculateStreaks
SpecStreaks == StreaksInit /\ [][StreaksNext]_vars

StreaksReturned == lastOp.op = "UserAlbums.calculateStreaks" /\ lastOp.arg.dates # <<>>
\* the length of the run of consecutive days that ends at the i-th date
RunEndingAt(dates, i) ==
    Cardinality({k \in 1..i : \A j \in k..i : dates[j] = dates[i] - (i - j)})
LongestRun(dates) ==
    CHOOSE n \in 1..Len(dates) :
        /\ \E i \in DOMAIN dates : RunEndingAt(dates, i) = n
        /\ \A i \in DOMAIN dates : RunEndingAt(dates, i) <= n

\* C38: calculateStreaks over a user's sorted entry dates returns currentStreak
\* = 0 whenever the most recent entry is more than one day before today, and
\* otherwise the length of the run of consecutive days that ends at the most
\* recent entry; longestStreak is the longest run of consecutive days and is
\* never smaller than currentStreak
C38_Streaks ==
    StreaksReturned =>
        LET dates == lastOp.arg.dates
            last == dates[Len(dates)]
        IN /\ lastOp.rec.currentStreak =
                 IF lastOp.arg.today - last > 1 THEN 0 ELSE RunEndingAt(dates, Len(dates))
           /\ lastOp.rec.longestStreak = LongestRun(dates)
           /\ lastOp.rec.longestStreak >= lastOp.rec.currentStreak

\* what the code does hold: the longest streak, and the current streak when the
\* most recent entry is of today or yesterday or is not the day after the entry
\* before it
C38_LongestAndRecent ==
    StreaksReturned =>
        LET dates == lastOp.arg.dates
            last == dates[Len(dates)]
        IN /\ lastOp.rec.longestStreak = LongestRun(dates)
           /\ lastOp.rec.longestStreak >= lastOp.rec.currentStreak
           /\ lastOp.arg.today - last <= 1 =>
                 lastOp.rec.currentStreak = RunEndingAt(dates, Len(dates))
           /\ (lastOp.arg.today - last > 1 /\ RunEndingAt(dates, Len(dates)) = 1) =>
                 lastOp.rec.currentStreak = 0

====
